---- MODULE Spec2Model ----
(***************************************************************************)
(* Investment lifecycle and ledger settlement engine of XinxunLtd/backend:  *)
(* purchase creation, the purchase webhook, the daily settlement scheduler, *)
(* the approval and rejection of withdrawals and the payout webhook, over   *)
(* the tables of database/db.sql.                                          *)
(*                                                                         *)
(* Money is counted in whole rupiah (every amount of the catalogue in       *)
(* db.sql is a whole number of rupiah); time is counted in hours.           *)
(***************************************************************************)
EXTENDS Integers, Sequences, FiniteSets, Bags, TLC

(***************************************************************************)
(* Bounds of the model                                                     *)
(***************************************************************************)
\* number of rows the investments table may hold
MaxInvestments == 2
\* number of clock steps the model follows
MaxTicks == 2
\* hours the clock advances in one step
TickHours == 24
\* number of payout callbacks the gateway delivers
MaxPayoutCalls == 2

(***************************************************************************)
(* Program constants                                                       *)
(***************************************************************************)
\* now.Add(24 * time.Hour)
PeriodHours == 24
\* if inv.Amount >= 100000
SpinTicketMinAmount == 100000
\* round3(inv.Amount * 0.30), as a percentage
BonusPercent == 30
\* method == "QRIS" && amount > 10000000
QRISMaxAmount == 10000000
\* method == "BANK" && amount < 10000
BankMinAmount == 10000

\* A nullable column or pointer field: <<>> is NULL/nil, <<x>> holds x.
None == <<>>
Some(x) == <<x>>

(***************************************************************************)
(* Pure functions                                                          *)
(***************************************************************************)
\* round3(f) = float64(int(f*100+0.5)) / 100 for f = num/den rupiah: the
\* value rounded half-up to hundredths.  int() truncates toward zero.  The
\* result is given in rupiah; RoundCents is the part below one rupiah.
RoundCents(num, den) == (200 * (num % den) + den) \div (2 * den)
round3(num, den) == (num \div den) + (RoundCents(num, den) \div 100)

\* variant: a tier begins above its threshold
calculateVIPLevelAbove(totalInvestVIP) ==
    IF totalInvestVIP > 150000000 THEN 5
    ELSE IF totalInvestVIP > 30000000 THEN 4
    ELSE IF totalInvestVIP > 7000000 THEN 3
    ELSE IF totalInvestVIP > 1200000 THEN 2
    ELSE IF totalInvestVIP > 50000 THEN 1
    ELSE 0

calculateVIPLevel(totalInvestVIP) ==
    IF totalInvestVIP >= 150000000 THEN 5
    ELSE IF totalInvestVIP >= 30000000 THEN 4
    ELSE IF totalInvestVIP >= 7000000 THEN 3
    ELSE IF totalInvestVIP >= 1200000 THEN 2
    ELSE IF totalInvestVIP >= 50000 THEN 1
    ELSE 0

\* status := strings.ToUpper(strings.TrimSpace(payload.CallbackData.Status)),
\* on the status values the model delivers
StatusInputs == {"success", " PAID ", "COMPLETED", "FAILED", "pending"}

\* variant: the status is compared as it was sent
NormalizeStatusAsSent(s) == s

NormalizeStatus(s) ==
    CASE s = "success" -> "SUCCESS"
      [] s = " PAID " -> "PAID"
      [] s = "pending" -> "PENDING"
      [] OTHER -> s

IsSuccessStatus(s) ==
    LET status == NormalizeStatus(s)
    IN  status = "SUCCESS" \/ status = "PAID" \/ status = "COMPLETED"

(***************************************************************************)
(* Catalogue (tables categories and products)                              *)
(***************************************************************************)
UserIDs == {1, 2}
WithdrawalIDs == {1}

\* products: rows shaped like 'Router 2' (locked) and 'Mifi 1' (unlocked) of
\* db.sql, with durations short enough to follow an investment to its end;
\* a row with the amount of 'Router 7', above the QRIS maximum, for VIP 5
\* (as 'Mifi 5'); and a row that is not Active
Products ==
    <<[CategoryID |-> 1, Amount |-> 200000, DailyProfit |-> 68000, Duration |-> 2,
       RequiredVIP |-> 0, PurchaseLimit |-> 0, Status |-> "Active"],
      [CategoryID |-> 2, Amount |-> 50000, DailyProfit |-> 20000, Duration |-> 2,
       RequiredVIP |-> 0, PurchaseLimit |-> 1, Status |-> "Active"],
      [CategoryID |-> 1, Amount |-> 20000000, DailyProfit |-> 8000000, Duration |-> 2,
       RequiredVIP |-> 5, PurchaseLimit |-> 0, Status |-> "Active"],
      [CategoryID |-> 1, Amount |-> 500000, DailyProfit |-> 175000, Duration |-> 2,
       RequiredVIP |-> 0, PurchaseLimit |-> 0, Status |-> "Inactive"]>>

ProductIDs == DOMAIN Products

\* order ids: of an investment (with its Payment and 'investment'
\* Transaction), of a withdrawal (with its 'withdraw' Transaction), and the
\* fresh ids of utils.GenerateOrderID, which no statement ever looks up
InvOrderID(i) == <<"INV", i>>
WdOrderID(w) == <<"WD", w>>
GeneratedOrderID == <<"GEN", 0>>

VARIABLES
    now,           \* time.Now(), in hours
    users,         \* table users
    categories,    \* table categories
    investments,   \* table investments, a row per id 1..Len
    payments,      \* table payments, payments[i] belongs to investments[i]
    transactions,  \* table transactions (the ledger), a bag of rows
    withdrawals,   \* table withdrawals
    webhookReq,    \* purchase webhook deliveries in flight, per worker
    cronReq,       \* scheduler runs in flight, per worker
    rejectReq,     \* the rejection in flight
    payoutCalls,   \* number of payout callbacks the gateway has delivered
    approveReq     \* approvals in flight, per worker

tables == <<users, categories, investments, payments, transactions, withdrawals>>
inflight == <<webhookReq, cronReq, rejectReq, payoutCalls, approveReq>>
vars == <<now, users, categories, investments, payments, transactions,
          withdrawals, webhookReq, cronReq, rejectReq, payoutCalls, approveReq>>

\* the tables as one value, so that a handler is a function of the database
DB == [users |-> users, investments |-> investments, payments |-> payments,
       transactions |-> transactions, withdrawals |-> withdrawals]

Store(d) ==
    /\ users' = d.users
    /\ investments' = d.investments
    /\ payments' = d.payments
    /\ transactions' = d.transactions
    /\ withdrawals' = d.withdrawals

Workers == {1, 2}

\* what a handler answers: the HTTP status, the gateway calls it has made
\* and, for the scheduler, the number of investments processed
Response(op, code, gateway) ==
    [op |-> op, code |-> code, gateway |-> gateway, processed |-> 0]

\* a row of table transactions.  Message is the template of the message
\* text; ForInv names the investment whose confirmation or settlement wrote
\* the row (0 for none): the program does not store it, the properties use it.
Trx(userID, amount, orderID, flow, type, message, status, forInv) ==
    [UserID |-> userID, Amount |-> amount, Charge |-> 0, OrderID |-> orderID,
     TransactionFlow |-> flow, TransactionType |-> type, Message |-> message,
     Status |-> status, ForInv |-> forInv]

\* variant: the row is not written
InsertNothing(trxs, row) == trxs

Insert(trxs, row) == trxs (+) SetToBag({row})

\* tx.Model(&models.Transaction{}).Where("order_id = ?", id).Update("status", st)
UpdateTrxStatus(trxs, orderID, st) ==
    BagOfAll(LAMBDA r : IF r.OrderID = orderID THEN [r EXCEPT !.Status = st] ELSE r, trxs)

Idle == [pc |-> "idle"]

(***************************************************************************)
(* Initial state: no investment yet; one withdrawal already requested      *)
(* (Pending, its amount taken from the balance, its 'withdraw' Transaction  *)
(* Pending) by the withdrawal request endpoint.                            *)
(***************************************************************************)
InitUser(u) ==
    [Balance |-> 0, Level |-> 0, TotalInvest |-> 0, TotalInvestVIP |-> 0,
     InvestmentStatus |-> "Inactive",
     ReffBy |-> IF u = 2 THEN Some(1) ELSE None,
     SpinTicket |-> IF u = 1 THEN None ELSE Some(0)]

\* variant: the charge is not taken off
withdrawals_keep_amount(row) == [row EXCEPT !.FinalAmount = row.Amount]

\* trigger withdrawals_calculate_final_amount, BEFORE INSERT
withdrawals_calculate_final_amount(row) ==
    [row EXCEPT !.FinalAmount = row.Amount - row.Charge]

\* trigger withdrawals_update_final_amount, BEFORE UPDATE: old is the row
\* of the table and new the row that tx.Save writes
withdrawals_update_final_amount(old, new) ==
    IF new.Amount # old.Amount \/ new.Charge # old.Charge
    THEN [new EXCEPT !.FinalAmount = new.Amount - new.Charge]
    ELSE new

\* the row the withdrawal request has inserted
InitWithdrawal(u) ==
    withdrawals_calculate_final_amount(
        [UserID |-> u, Amount |-> 30000, Charge |-> 3000, FinalAmount |-> 0,
         OrderID |-> WdOrderID(1), Status |-> "Pending"])

Init ==
    /\ now = 0
    /\ users = [u \in UserIDs |-> InitUser(u)]
    /\ categories = [c \in {1, 2} |-> [ProfitType |-> IF c = 1 THEN "locked" ELSE "unlocked"]]
    /\ investments = <<>>
    /\ payments = <<>>
    /\ withdrawals = [w \in WithdrawalIDs |-> InitWithdrawal(1)]
    /\ transactions = SetToBag({[Trx(1, 30000, WdOrderID(1), "debit", "withdraw",
                                     "Penarikan", "Pending", 0) EXCEPT !.Charge = 3000]})
    /\ webhookReq = [k \in Workers |-> Idle]
    /\ cronReq = [k \in Workers |-> Idle]
    /\ rejectReq = Idle
    /\ payoutCalls = 0
    /\ approveReq = [k \in Workers |-> Idle]

(***************************************************************************)
(* The clock                                                               *)
(***************************************************************************)
Tick ==
    /\ now + TickHours <= MaxTicks * TickHours
    /\ now' = now + TickHours
    /\ UNCHANGED <<tables, inflight>>

(***************************************************************************)
(* POST /api/users/investments                                             *)
(***************************************************************************)
\* variant: every investment of the product counts, whatever its status
PurchaseCountAny(d, uid, productID) ==
    Cardinality({i \in DOMAIN d.investments :
        /\ d.investments[i].UserID = uid
        /\ d.investments[i].ProductID = productID})

\* if product.PurchaseLimit > 0 { count of the user's Running, Completed and
\* Suspended investments of the product >= limit }
PurchaseCount(d, uid, productID) ==
    Cardinality({i \in DOMAIN d.investments :
        /\ d.investments[i].UserID = uid
        /\ d.investments[i].ProductID = productID
        /\ d.investments[i].Status \in {"Running", "Completed", "Suspended"}})

PurchaseLimitReached(d, uid, productID) ==
    /\ Products[productID].PurchaseLimit > 0
    /\ PurchaseCount(d, uid, productID) >= Products[productID].PurchaseLimit

\* the rows written by the db.Transaction of CreateInvestmentHandler
PersistInvestment(d, uid, productID, method) ==
    LET product == Products[productID]
        id == Len(d.investments) + 1
        inv == [UserID |-> uid, ProductID |-> productID, CategoryID |-> product.CategoryID,
                Amount |-> product.Amount, DailyProfit |-> product.DailyProfit,
                Duration |-> product.Duration, TotalPaid |-> 0, TotalReturned |-> 0,
                LastReturnAt |-> None, NextReturnAt |-> None,
                OrderID |-> InvOrderID(id), Status |-> "Pending"]
        payment == [InvestmentID |-> id, ReferenceID |-> InvOrderID(id),
                    OrderID |-> inv.OrderID, PaymentMethod |-> method, Status |-> "Pending"]
        trx == Trx(uid, inv.Amount, inv.OrderID, "credit", "investment", "Investasi",
                   "Pending", id)
    IN  [d EXCEPT !.investments = Append(@, inv),
                  !.payments = Append(@, payment),
                  !.transactions = Insert(@, trx)]

\* the response of the handler and the database it leaves
CreateInvestment(d, uid, productID, method, channel, fault) ==
    IF method # "QRIS" /\ method # "BANK"
    THEN [db |-> d, resp |-> Response("create", 400, {})]
    ELSE IF method = "BANK" /\ channel \notin {"BCA", "BRI", "BNI", "MANDIRI", "PERMATA", "BNC"}
    THEN [db |-> d, resp |-> Response("create", 400, {})]
    ELSE IF productID \notin ProductIDs \/ Products[productID].Status # "Active"
    THEN [db |-> d, resp |-> Response("create", 400, {})]
    ELSE IF d.users[uid].Level < Products[productID].RequiredVIP
    THEN [db |-> d, resp |-> Response("create", 400, {})]
    ELSE IF PurchaseLimitReached(d, uid, productID)
    THEN [db |-> d, resp |-> Response("create", 400, {})]
    ELSE IF fault = "token"
    THEN [db |-> d, resp |-> Response("create", 400, {"token"})]
    ELSE IF method = "QRIS" /\ Products[productID].Amount > QRISMaxAmount
    THEN [db |-> d, resp |-> Response("create", 400, {"token"})]
    ELSE IF method = "BANK" /\ Products[productID].Amount < BankMinAmount
    THEN [db |-> d, resp |-> Response("create", 400, {"token"})]
    ELSE IF fault = "charge"
    THEN [db |-> d, resp |-> Response("create", 400, {"token", "charge"})]
    ELSE IF fault = "db"
    THEN [db |-> d, resp |-> Response("create", 500, {"token", "charge"})]
    ELSE [db |-> PersistInvestment(d, uid, productID, method),
          resp |-> Response("create", 201, {"token", "charge"})]

\* method and channel of the request, trimmed and upper-cased
PaymentInputs == {<<"QRIS", "">>, <<"BANK", "BCA">>, <<"BANK", "XYZ">>, <<"CARD", "">>}
\* what fails in a request: nothing, the token exchange, the create-charge
\* call, or the database transaction
CreateFaults == {"none", "token", "charge", "db"}

CreateInvestmentHandler ==
    /\ Len(investments) < MaxInvestments
    /\ \E uid \in UserIDs, productID \in ProductIDs \cup {0}, pay \in PaymentInputs,
          fault \in CreateFaults :
          Store(CreateInvestment(DB, uid, productID, pay[1], pay[2], fault).db)
    /\ UNCHANGED <<now, categories, inflight>>

(***************************************************************************)
(* POST /api/payments/kyta/webhook                                         *)
(***************************************************************************)
\* db.Where("order_id = ?", referenceID).First(&payment)
PaymentsByOrderID(d, referenceID) ==
    {p \in DOMAIN d.payments : d.payments[p].OrderID = referenceID}

\* paymentUpdates: reference_id when the gateway sent an id, and status
UpdatePayment(d, p, success, paymentID) ==
    [d EXCEPT !.payments[p] =
        [@ EXCEPT !.Status = IF success THEN "Success" ELSE "Failed",
                  !.ReferenceID = IF paymentID # <<>> THEN paymentID ELSE @]]

\* variant: a delivery is never ignored
WebhookIgnoresNothing(inv) == FALSE

\* if inv.Status != "Pending" { "Ignored" }
WebhookIgnores(inv) == inv.Status # "Pending"

\* variant: no referrer is ever credited
ReferralBonusNone(d, i, spinFails, balanceFails, trxFails) == d

\* the bonus of the direct referrer; spinFails, balanceFails and trxFails say
\* which of the three statements whose error the code drops has failed
ReferralBonus(d, i, spinFails, balanceFails, trxFails) ==
    LET inv == d.investments[i]
        user == d.users[inv.UserID]
    IN  IF user.ReffBy = None \/ Head(user.ReffBy) \notin DOMAIN d.users
        THEN d
        ELSE LET id == Head(user.ReffBy)
                 level1 == d.users[id]
                 spin == IF inv.Amount >= SpinTicketMinAmount /\ ~spinFails
                         THEN IF level1.SpinTicket = None
                              THEN Some(1)
                              ELSE Some(Head(level1.SpinTicket) + 1)
                         ELSE level1.SpinTicket
                 bonus == round3(inv.Amount * BonusPercent, 100)
                 trx == Trx(id, bonus, GeneratedOrderID, "debit", "team", "Bonus",
                            "Success", i)
             IN  [d EXCEPT !.users[id] =
                               [@ EXCEPT !.SpinTicket = spin,
                                         !.Balance = IF balanceFails THEN @ ELSE @ + bonus],
                           !.transactions = IF trxFails THEN @ ELSE Insert(@, trx)]

\* variant: the level is the tier of the amount confirmed
ConfirmPaymentLevelOfAmount(d, i, t, spinFails, balanceFails, trxFails) ==
    LET inv == d.investments[i]
        isMonitor == categories[inv.CategoryID].ProfitType = "locked"
        d1 == [d EXCEPT !.transactions = UpdateTrxStatus(@, inv.OrderID, "Success"),
                        !.investments[i] =
                            [@ EXCEPT !.Status = "Running", !.LastReturnAt = None,
                                      !.NextReturnAt = Some(t + PeriodHours)]]
        d2 == [d1 EXCEPT !.users[inv.UserID] =
                  [@ EXCEPT !.TotalInvest = @ + inv.Amount,
                            !.InvestmentStatus = "Active",
                            !.TotalInvestVIP = IF isMonitor THEN @ + inv.Amount ELSE @]]
        d3 == IF isMonitor
              THEN [d2 EXCEPT !.users[inv.UserID].Level = calculateVIPLevel(inv.Amount)]
              ELSE d2
    IN  ReferralBonus(d3, i, spinFails, balanceFails, trxFails)

\* the db.Transaction of a success delivery, committed at time t for the
\* investment the handler has read as inv
ConfirmPayment(d, i, t, spinFails, balanceFails, trxFails) ==
    LET inv == d.investments[i]
        isMonitor == categories[inv.CategoryID].ProfitType = "locked"
        d1 == [d EXCEPT !.transactions = UpdateTrxStatus(@, inv.OrderID, "Success"),
                        !.investments[i] =
                            [@ EXCEPT !.Status = "Running", !.LastReturnAt = None,
                                      !.NextReturnAt = Some(t + PeriodHours)]]
        d2 == [d1 EXCEPT !.users[inv.UserID] =
                  [@ EXCEPT !.TotalInvest = @ + inv.Amount,
                            !.InvestmentStatus = "Active",
                            !.TotalInvestVIP = IF isMonitor THEN @ + inv.Amount ELSE @]]
        d3 == IF isMonitor
              THEN [d2 EXCEPT !.users[inv.UserID].Level =
                                  calculateVIPLevel(d2.users[inv.UserID].TotalInvestVIP)]
              ELSE d2
    IN  ReferralBonus(d3, i, spinFails, balanceFails, trxFails)

\* the db.Transaction of a failure delivery; the error of either statement is
\* dropped and the transaction commits
CancelPayment(d, i, trxFails, invFails) ==
    [d EXCEPT !.transactions = IF trxFails THEN @
                               ELSE UpdateTrxStatus(@, d.investments[i].OrderID, "Failed"),
              !.investments[i].Status = IF invFails THEN @ ELSE "Cancelled"]

\* the transaction of a delivery; rollback: a statement whose error is
\* returned has failed
WebhookTx(d, i, success, t, fault) ==
    IF success
    THEN (IF fault = "rollback" THEN d
          ELSE ConfirmPayment(d, i, t, fault = "spin", fault = "balance", fault = "trx"))
    ELSE CancelPayment(d, i, fault = "trx", fault = "inv")

KytaWebhook(d, referenceID, status, paymentID, fault) ==
    LET found == PaymentsByOrderID(d, referenceID)
    IN  IF found = {}
        THEN [db |-> d, resp |-> Response("webhook", 404, {})]
        ELSE LET p == CHOOSE x \in found : TRUE
                 success == IsSuccessStatus(status)
                 d1 == UpdatePayment(d, p, success, paymentID)
                 i == d1.payments[p].InvestmentID
             IN  IF WebhookIgnores(d1.investments[i])
                 THEN [db |-> d1, resp |-> Response("webhook", 200, {})]
                 ELSE [db |-> WebhookTx(d1, i, success, now, fault),
                       resp |-> Response("webhook", 200, {})]

\* payload.CallbackData.ID of the deliveries
GatewayPaymentID == <<"KYTA", 0>>

KytaWebhookHandler ==
    /\ \E i \in 1..MaxInvestments, status \in StatusInputs, fault \in {"none", "rollback"} :
          Store(KytaWebhook(DB, InvOrderID(i), status, GatewayPaymentID, fault).db)
    /\ UNCHANGED <<now, categories, inflight>>

(***************************************************************************)
(* POST /api/cron/daily-returns                                            *)
(***************************************************************************)
\* status = 'Running' AND next_return_at IS NOT NULL AND next_return_at <= ?
\* AND total_paid < duration
IsDue(inv, t) ==
    /\ inv.Status = "Running"
    /\ inv.NextReturnAt # None
    /\ Head(inv.NextReturnAt) <= t
    /\ inv.TotalPaid < inv.Duration

Due(d, t) == {i \in DOMAIN d.investments : IsDue(d.investments[i], t)}

\* variant: every category is paid every period
PaysEveryPeriodAlways(category) == TRUE

\* if category.ProfitType == "unlocked"
PaysEveryPeriod(category) == category.ProfitType = "unlocked"

\* if category.ProfitType == "locked" && paid >= inv.Duration
PaysAtCompletion(category, paid, duration) ==
    category.ProfitType = "locked" /\ paid >= duration

\* variant: an investment completes once it has been paid more than its periods
CompletesAbove(paid, duration) == paid > duration

\* if paid >= inv.Duration
Completes(paid, duration) == paid >= duration

\* variant: the next return is due at once
NextReturnAtOnce(t) == t

\* nextTime := nowTime.Add(24 * time.Hour)
NextReturn(t) == t + PeriodHours

\* variant: the total returned counts what has been credited to the balance,
\* so that a locked investment has returned nothing until it completes
SettleCountsCredited(d, i, inv, t) ==
    LET user == d.users[inv.UserID]
        category == categories[inv.CategoryID]
        paid == inv.TotalPaid + 1
        totalProfit == round3(inv.DailyProfit * inv.Duration, 1)
        profit == IF PaysEveryPeriod(category) THEN inv.DailyProfit
                  ELSE IF PaysAtCompletion(category, paid, inv.Duration) THEN totalProfit
                  ELSE 0
        principal == IF Completes(paid, inv.Duration) THEN inv.Amount ELSE 0
    IN  [d EXCEPT !.users[inv.UserID].Balance = round3(user.Balance + profit + principal, 1),
                  !.investments[i] =
                      [@ EXCEPT !.TotalPaid = paid,
                                !.TotalReturned = round3(inv.TotalReturned + profit, 1),
                                !.LastReturnAt = Some(t), !.NextReturnAt = Some(NextReturn(t)),
                                !.Status = IF Completes(paid, inv.Duration)
                                           THEN "Completed" ELSE @]]

\* variant: each credit of the step starts from the balance as first read,
\* so that the return of the principal overwrites the profit
SettleOverwrites(d, i, inv, t) ==
    LET user == d.users[inv.UserID]
        category == categories[inv.CategoryID]
        paid == inv.TotalPaid + 1
        balance == IF Completes(paid, inv.Duration)
                   THEN round3(user.Balance + inv.Amount, 1)
                   ELSE IF PaysEveryPeriod(category)
                   THEN round3(user.Balance + inv.DailyProfit, 1)
                   ELSE user.Balance
    IN  [d EXCEPT !.users[inv.UserID].Balance = balance,
                  !.investments[i] =
                      [@ EXCEPT !.TotalPaid = paid,
                                !.TotalReturned = round3(inv.TotalReturned + inv.DailyProfit, 1),
                                !.LastReturnAt = Some(t), !.NextReturnAt = Some(NextReturn(t)),
                                !.Status = IF Completes(paid, inv.Duration)
                                           THEN "Completed" ELSE @]]

\* the db.Transaction of one due investment, committed at time t; inv is the
\* row as the scheduler selected it.  tx.Model(&user).Update("balance", v)
\* also stores v in user.Balance, which the next credit of the step reads.
Settle(d, i, inv, t) ==
    LET user == d.users[inv.UserID]
        category == categories[inv.CategoryID]
        amount == inv.DailyProfit
        paid == inv.TotalPaid + 1
        returned == round3(inv.TotalReturned + amount, 1)
        balance1 == IF PaysEveryPeriod(category)
                    THEN round3(user.Balance + amount, 1) ELSE user.Balance
        trxs1 == IF PaysEveryPeriod(category)
                 THEN Insert(d.transactions,
                             Trx(inv.UserID, amount, GeneratedOrderID, "debit", "return",
                                 "Profit", "Success", i))
                 ELSE d.transactions
        totalProfit == round3(inv.DailyProfit * inv.Duration, 1)
        balance2 == IF PaysAtCompletion(category, paid, inv.Duration)
                    THEN round3(balance1 + totalProfit, 1) ELSE balance1
        trxs2 == IF PaysAtCompletion(category, paid, inv.Duration)
                 THEN Insert(trxs1,
                             Trx(inv.UserID, totalProfit, GeneratedOrderID, "debit", "return",
                                 "TotalProfit", "Success", i))
                 ELSE trxs1
        balance3 == IF Completes(paid, inv.Duration)
                    THEN round3(balance2 + inv.Amount, 1) ELSE balance2
        trxs3 == IF Completes(paid, inv.Duration)
                 THEN Insert(trxs2,
                             Trx(inv.UserID, inv.Amount, GeneratedOrderID, "debit", "return",
                                 "Modal", "Success", i))
                 ELSE trxs2
    IN  [d EXCEPT !.users[inv.UserID].Balance = balance3,
                  !.transactions = trxs3,
                  !.investments[i] =
                      [@ EXCEPT !.TotalPaid = paid, !.TotalReturned = returned,
                                !.LastReturnAt = Some(t), !.NextReturnAt = Some(NextReturn(t)),
                                !.Status = IF Completes(paid, inv.Duration)
                                           THEN "Completed" ELSE @]]

\* variant: the run stops at the first transaction that fails
RECURSIVE SettleUntilFailure(_, _, _, _)
SettleUntilFailure(d, todo, failed, t) ==
    IF todo = {}
    THEN d
    ELSE LET i == CHOOSE x \in todo : \A y \in todo : x <= y
         IN  IF i \in failed
             THEN d
             ELSE SettleUntilFailure(Settle(d, i, d.investments[i], t), todo \ {i}, failed, t)

\* for i := range due: every investment of todo is settled in its own
\* transaction, except those of failed, whose transaction rolls back
RECURSIVE SettleAll(_, _, _, _)
SettleAll(d, todo, failed, t) ==
    IF todo = {}
    THEN d
    ELSE LET i == CHOOSE x \in todo : \A y \in todo : x <= y
             d1 == IF i \in failed THEN d ELSE Settle(d, i, d.investments[i], t)
         IN  SettleAll(d1, todo \ {i}, failed, t)

\* one run of the scheduler at time t
CronDailyReturns(d, keyOK, failed, t) ==
    IF ~keyOK
    THEN [db |-> d, resp |-> Response("cron", 401, {})]
    ELSE [db |-> SettleAll(d, Due(d, t), failed, t),
          resp |-> [Response("cron", 200, {}) EXCEPT
                       !.processed = Cardinality(Due(d, t) \ failed)]]

CronDailyReturnsHandler ==
    /\ \E keyOK \in BOOLEAN, failed \in SUBSET Due(DB, now) :
          Store(CronDailyReturns(DB, keyOK, failed, now).db)
    /\ UNCHANGED <<now, categories, inflight>>

(***************************************************************************)
(* Rejection of a withdrawal (admin)                                       *)
(***************************************************************************)
\* variant: the refund is the amount after the charge
RefundFinalAmount(withdrawal) == withdrawal.FinalAmount

\* user.Balance += withdrawal.Amount
RefundAmount(withdrawal) == withdrawal.Amount

\* the statements between tx := database.DB.Begin() and tx.Commit(), for
\* the withdrawal row and the user row as the handler has read them
RejectTx(d, w, withdrawal, user) ==
    [d EXCEPT !.withdrawals[w] =
                  withdrawals_update_final_amount(@, [withdrawal EXCEPT !.Status = "Failed"]),
              !.transactions = UpdateTrxStatus(@, withdrawal.OrderID, "Failed"),
              !.users[withdrawal.UserID] =
                  [user EXCEPT !.Balance = @ + RefundAmount(withdrawal)]]

RejectWithdrawalOf(d, w, dbOK) ==
    IF w \notin DOMAIN d.withdrawals
    THEN [db |-> d, resp |-> Response("reject", 404, {})]
    ELSE IF d.withdrawals[w].Status # "Pending"
    THEN [db |-> d, resp |-> Response("reject", 500, {})]
    ELSE IF ~dbOK
    THEN [db |-> d, resp |-> Response("reject", 500, {})]
    ELSE [db |-> RejectTx(d, w, d.withdrawals[w], d.users[d.withdrawals[w].UserID]),
          resp |-> Response("reject", 200, {})]

RejectWithdrawal ==
    /\ \E w \in WithdrawalIDs \cup {0}, dbOK \in BOOLEAN :
          Store(RejectWithdrawalOf(DB, w, dbOK).db)
    /\ UNCHANGED <<now, categories, inflight>>

(***************************************************************************)
(* Requests handled one at a time                                          *)
(***************************************************************************)
Next ==
    \/ Tick
    \/ CreateInvestmentHandler
    \/ KytaWebhookHandler
    \/ CronDailyReturnsHandler
    \/ RejectWithdrawal

Spec == Init /\ [][Next]_vars

(***************************************************************************)
(* Approval of a withdrawal (admin)                                        *)
(***************************************************************************)
\* variant: a withdrawal is approved whatever its status
ApproveAcceptsAny(withdrawal) == TRUE

\* if withdrawal.Status != "Pending" { 500 }
ApproveAccepts(withdrawal) == withdrawal.Status = "Pending"

\* variant: the Transaction of the withdrawal is left as it is
ApproveTxWithdrawalOnly(d, w, withdrawal) ==
    [d EXCEPT !.withdrawals[w] = [withdrawal EXCEPT !.Status = "Success"]]

\* the statements between tx := database.DB.Begin() and tx.Commit(), for
\* the withdrawal row as the handler has read it
ApproveTx(d, w, withdrawal) ==
    [d EXCEPT !.withdrawals[w] =
                  withdrawals_update_final_amount(@, [withdrawal EXCEPT !.Status = "Success"]),
              !.transactions = UpdateTrxStatus(@, withdrawal.OrderID, "Success")]

\* what fails in an approval: nothing, the read of the settings, the read of
\* the bank account, the token exchange, the payout transfer, or the
\* database transaction
ApproveFaults == {"none", "setting", "account", "token", "payout", "db"}

\* the response of the handler and the database it leaves; autoWithdraw is
\* setting.AutoWithdraw
ApproveWithdrawalOf(d, w, autoWithdraw, fault) ==
    IF w \notin DOMAIN d.withdrawals
    THEN [db |-> d, resp |-> Response("approve", 404, {})]
    ELSE IF ~ApproveAccepts(d.withdrawals[w])
    THEN [db |-> d, resp |-> Response("approve", 500, {})]
    ELSE IF fault = "setting"
    THEN [db |-> d, resp |-> Response("approve", 500, {})]
    ELSE IF ~autoWithdraw
    THEN (IF fault = "db"
          THEN [db |-> d, resp |-> Response("approve", 500, {})]
          ELSE [db |-> ApproveTx(d, w, d.withdrawals[w]),
                resp |-> Response("approve", 200, {})])
    ELSE IF fault = "account"
    THEN [db |-> d, resp |-> Response("approve", 500, {})]
    ELSE IF fault = "token"
    THEN [db |-> d, resp |-> Response("approve", 500, {"token"})]
    ELSE IF fault = "payout"
    THEN [db |-> d, resp |-> Response("approve", 500, {"token", "payout"})]
    ELSE IF fault = "db"
    THEN [db |-> d, resp |-> Response("approve", 500, {"token", "payout"})]
    ELSE [db |-> ApproveTx(d, w, d.withdrawals[w]),
          resp |-> Response("approve", 200, {"token", "payout"})]

ApproveWithdrawal ==
    /\ \E w \in WithdrawalIDs \cup {0}, autoWithdraw \in BOOLEAN, fault \in ApproveFaults :
          Store(ApproveWithdrawalOf(DB, w, autoWithdraw, fault).db)
    /\ UNCHANGED <<now, categories, inflight>>

(***************************************************************************)
(* Purchases and the handling of a withdrawal, one request at a time       *)
(***************************************************************************)
NextWithdrawal ==
    \/ CreateInvestmentHandler
    \/ KytaWebhookHandler
    \/ ApproveWithdrawal
    \/ RejectWithdrawal

SpecWithdrawal == Init /\ [][NextWithdrawal]_vars

(***************************************************************************)
(* POST /api/payouts/kyta/webhook                                          *)
(***************************************************************************)
\* callback_data.status values the model delivers
PayoutStatusInputs == {"Success", "SUCCESS", "success", "Failed", "FAILED", "Pending"}

\* if status == "Success" { "Ignore" }
PayoutIgnores(status) == status = "Success"

\* db.Where("order_id = ?", referenceID).First(&withdrawal)
WithdrawalsByOrderID(d, referenceID) ==
    {w \in DOMAIN d.withdrawals : d.withdrawals[w].OrderID = referenceID}

\* variant: a payout that has not succeeded marks the withdrawal Failed
PayoutMarksFailed(d, w, withdrawal) ==
    [d EXCEPT !.withdrawals[w] = [withdrawal EXCEPT !.Status = "Failed"],
              !.transactions = UpdateTrxStatus(@, withdrawal.OrderID, "Failed")]

\* the statements between tx := db.Begin() and tx.Commit(), for the
\* withdrawal row as the handler has read it
PayoutRevertTx(d, w, withdrawal) ==
    [d EXCEPT !.withdrawals[w] =
                  withdrawals_update_final_amount(@, [withdrawal EXCEPT !.Status = "Pending"]),
              !.transactions = UpdateTrxStatus(@, withdrawal.OrderID, "Pending")]

\* the response of the handler and the database it leaves
KytaPayoutWebhook(d, referenceID, status, dbOK) ==
    IF referenceID = <<>>
    THEN [db |-> d, resp |-> Response("payout", 500, {})]
    ELSE IF PayoutIgnores(status)
    THEN [db |-> d, resp |-> Response("payout", 200, {})]
    ELSE LET found == WithdrawalsByOrderID(d, referenceID)
         IN  IF found = {}
             THEN [db |-> d, resp |-> Response("payout", 404, {})]
             ELSE LET w == CHOOSE x \in found : TRUE
                  IN  IF ~dbOK
                      THEN [db |-> d, resp |-> Response("payout", 500, {})]
                      ELSE [db |-> PayoutRevertTx(d, w, d.withdrawals[w]),
                            resp |-> Response("payout", 200, {})]

\* reference_id of the callbacks: of a withdrawal, of no withdrawal, empty
\* (<<>> is the empty string)
PayoutReferences == {WdOrderID(w) : w \in WithdrawalIDs} \cup {WdOrderID(0), <<>>}

KytaPayoutWebhookHandler ==
    /\ payoutCalls < MaxPayoutCalls
    /\ payoutCalls' = payoutCalls + 1
    /\ \E referenceID \in PayoutReferences, status \in PayoutStatusInputs, dbOK \in BOOLEAN :
          Store(KytaPayoutWebhook(DB, referenceID, status, dbOK).db)
    /\ UNCHANGED <<now, categories, webhookReq, cronReq, rejectReq, approveReq>>

(***************************************************************************)
(* Purchases, the handling of a withdrawal and the payout callbacks, one   *)
(* request at a time                                                       *)
(***************************************************************************)
NextPayout ==
    \/ CreateInvestmentHandler
    \/ KytaWebhookHandler
    \/ ApproveWithdrawal
    \/ RejectWithdrawal
    \/ KytaPayoutWebhookHandler

SpecPayout == Init /\ [][NextPayout]_vars

(***************************************************************************)
(* Masking of the destination of a withdrawal: the listing of withdrawals  *)
(* and the payout of an automatic approval read payment_settings and may    *)
(* put the account of the house in place of the account of the user.       *)
(***************************************************************************)
\* the row of payment_settings: none (db.First leaves the zero value), or the
\* row of db.sql with some threshold and some exemption list
NoPaymentSettings ==
    [ID |-> 0, BankName |-> "", BankCode |-> "", AccountNumber |-> "",
     WithdrawAmount |-> 0, Wishlist |-> {}]

PaymentSettingsStates ==
    {NoPaymentSettings} \cup
    {[ID |-> 1, BankName |-> "Bank BCA", BankCode |-> "BCA", AccountNumber |-> "1234567890",
      WithdrawAmount |-> amount, Wishlist |-> wishlist] :
        amount \in {0, 29999, 30000, 30001, 50000}, wishlist \in SUBSET UserIDs}

\* the bank account a withdrawal names, with its bank preloaded
BankAccount(withdrawal) ==
    [AccountName |-> "Pemilik", AccountNumber |-> "9876543210",
     Bank |-> [Name |-> "Bank Rakyat Indonesia", Code |-> "BRI"]]

\* ps.IsUserInWishlist(userID): the user is on the exemption list
IsUserInWishlist(ps, userID) == userID \in ps.Wishlist

\* bankName, accountName and accountNumber of a row of GetWithdrawals
ListedDestination(ps, withdrawal, ba) ==
    LET masked == /\ ps.ID # 0
                  /\ ~IsUserInWishlist(ps, withdrawal.UserID)
                  /\ withdrawal.Amount >= ps.WithdrawAmount
    IN  [BankName |-> IF masked THEN ps.BankName ELSE ba.Bank.Name,
         AccountName |-> ba.AccountName,
         AccountNumber |-> IF masked THEN ps.AccountNumber ELSE ba.AccountNumber]

\* variant: the threshold itself is not masked
PayoutDestinationAbove(ps, withdrawal, ba) ==
    LET useReal == IsUserInWishlist(ps, withdrawal.UserID)
        masked == ~useReal /\ ps.ID # 0 /\ withdrawal.Amount > ps.WithdrawAmount
    IN  [code |-> IF masked THEN ps.BankCode ELSE ba.Bank.Code,
         account_number |-> IF masked THEN ps.AccountNumber ELSE ba.AccountNumber,
         account_name |-> ba.AccountName]

\* "destination" of the payout request of ApproveWithdrawal
PayoutDestination(ps, withdrawal, ba) ==
    LET useReal == IsUserInWishlist(ps, withdrawal.UserID)
        masked == ~useReal /\ ps.ID # 0 /\ withdrawal.Amount >= ps.WithdrawAmount
    IN  [code |-> IF masked THEN ps.BankCode ELSE ba.Bank.Code,
         account_number |-> IF masked THEN ps.AccountNumber ELSE ba.AccountNumber,
         account_name |-> ba.AccountName]

(***************************************************************************)
(* The payment gateway: what it answers to a call, and how each caller      *)
(* reads the answer.  A response code is the sequence of its characters.    *)
(***************************************************************************)
\* strings.HasPrefix(s, prefix)
HasPrefix(s, prefix) == Len(s) >= Len(prefix) /\ SubSeq(s, 1, Len(prefix)) = prefix

\* response_code values the gateway may send: none, "200", the codes the
\* code names for the three calls, other codes of the 200 family, and codes
\* outside it
ResponseCodes ==
    {<<>>, <<2, 0, 0>>, <<2, 0, 0, 0, 1, 0, 0>>, <<2, 0, 0, 1, 0, 0, 0>>,
     <<2, 0, 0, 1, 1, 0, 0>>, <<2, 0, 0, 9>>, <<2, 0>>, <<2, 0, 1>>, <<4, 0, 0>>,
     <<4, 0, 1, 0, 0, 0, 0>>, <<5, 2, 0, 0>>}

\* an answer: conn is false when client.Do or io.ReadAll returns an error;
\* http is resp.StatusCode; parsed is false when json.Unmarshal fails; code
\* is response_code and token is response_data.access_token
Reply(conn, http, parsed, code, token) ==
    [conn |-> conn, http |-> http, parsed |-> parsed, code |-> code, token |-> token]

GatewayReplies ==
    {Reply(TRUE, 200, TRUE, code, "token") : code \in ResponseCodes}
    \cup {Reply(FALSE, 0, FALSE, <<>>, ""),
          Reply(TRUE, 500, TRUE, <<2, 0, 0>>, "token"),
          Reply(TRUE, 201, TRUE, <<2, 0, 0>>, "token"),
          Reply(TRUE, 200, FALSE, <<>>, ""),
          Reply(TRUE, 200, TRUE, <<2, 0, 0, 0, 1, 0, 0>>, "")}

\* the answer when nothing is wrong
GoodReply == Reply(TRUE, 200, TRUE, <<2, 0, 0>>, "token")

\* err == nil of getKytaAccessTokenSafe
getKytaAccessTokenSafe(reply) ==
    /\ reply.conn
    /\ reply.http = 200
    /\ reply.parsed
    /\ ~(/\ reply.code # <<>>
         /\ reply.code # <<2, 0, 0, 0, 1, 0, 0>>
         /\ reply.code # <<2, 0, 0>>
         /\ ~HasPrefix(reply.code, <<2, 0, 0>>))
    /\ reply.token # ""

\* err == nil of createKytaQRISSafe (named = "2001100") and of
\* createKytaVASafe (named = "2001200")
createKytaPaymentSafe(reply, named) ==
    /\ reply.conn
    /\ reply.http = 200
    /\ reply.parsed
    /\ ~(/\ reply.code # <<>>
         /\ reply.code # named
         /\ reply.code # <<2, 0, 0>>
         /\ ~HasPrefix(reply.code, <<2, 0, 0>>))

\* the token exchange of ApproveWithdrawal goes on to the payout
ApproveTokenOK(reply) ==
    /\ reply.conn
    /\ ~(reply.http < 200 \/ reply.http >= 300)
    /\ reply.parsed
    /\ (reply.code # <<>> =>
           \/ reply.code = <<2, 0, 0>>
           \/ reply.code = <<2, 0, 0, 0, 1, 0, 0>>
           \/ HasPrefix(reply.code, <<2, 0, 0>>))
    /\ reply.token # ""

\* the payout transfer of ApproveWithdrawal goes on to the transaction
ApprovePayoutOK(reply) ==
    /\ reply.conn
    /\ ~(reply.http < 200 \/ reply.http >= 300)
    /\ reply.parsed
    /\ (reply.code # <<>> =>
           \/ reply.code = <<2, 0, 0>>
           \/ reply.code = <<2, 0, 0, 1, 0, 0, 0>>
           \/ HasPrefix(reply.code, <<2, 0, 0>>))

\* what fails in a purchase, from the answers of the gateway
CreateFault(method, tokenReply, chargeReply, dbOK) ==
    IF ~getKytaAccessTokenSafe(tokenReply) THEN "token"
    ELSE IF ~createKytaPaymentSafe(chargeReply,
                IF method = "QRIS" THEN <<2, 0, 0, 1, 1, 0, 0>> ELSE <<2, 0, 0, 1, 2, 0, 0>>)
    THEN "charge"
    ELSE IF ~dbOK THEN "db"
    ELSE "none"

\* what fails in an approval, from the answers of the gateway
ApproveFault(autoWithdraw, tokenReply, payoutReply, dbOK) ==
    IF ~autoWithdraw THEN (IF dbOK THEN "none" ELSE "db")
    ELSE IF ~ApproveTokenOK(tokenReply) THEN "token"
    ELSE IF ~ApprovePayoutOK(payoutReply) THEN "payout"
    ELSE IF ~dbOK THEN "db"
    ELSE "none"

\* the answers of one request: one call of the two answers anything, the
\* other answers well
ReplyPairs ==
    {<<r, GoodReply>> : r \in GatewayReplies} \cup {<<GoodReply, r>> : r \in GatewayReplies}

CreateInvestmentCalls ==
    /\ Len(investments) < MaxInvestments
    /\ \E uid \in UserIDs, productID \in ProductIDs, pay \in PaymentInputs,
          replies \in ReplyPairs, dbOK \in BOOLEAN :
          Store(CreateInvestment(DB, uid, productID, pay[1], pay[2],
                                 CreateFault(pay[1], replies[1], replies[2], dbOK)).db)
    /\ UNCHANGED <<now, categories, inflight>>

ApproveWithdrawalCalls ==
    /\ \E w \in WithdrawalIDs, autoWithdraw \in BOOLEAN, replies \in ReplyPairs,
          dbOK \in BOOLEAN :
          Store(ApproveWithdrawalOf(DB, w, autoWithdraw,
                                    ApproveFault(autoWithdraw, replies[1], replies[2], dbOK)).db)
    /\ UNCHANGED <<now, categories, inflight>>

NextGateway ==
    \/ CreateInvestmentCalls
    \/ KytaWebhookHandler
    \/ ApproveWithdrawalCalls
    \/ RejectWithdrawal

SpecGateway == Init /\ [][NextGateway]_vars

(***************************************************************************)
(* Dropped errors: the statements of the purchase webhook whose error the  *)
(* code does not look at (the spin ticket, the bonus credit and the 'team'  *)
(* row of the referrer; both statements of a failure delivery) fail one at  *)
(* a time, and the transaction commits all the same.                       *)
(***************************************************************************)
DroppedErrors == {"spin", "balance", "trx", "inv"}

KytaWebhookDropsError ==
    /\ \E i \in 1..MaxInvestments, status \in StatusInputs, fault \in DroppedErrors :
          Store(KytaWebhook(DB, InvOrderID(i), status, GatewayPaymentID, fault).db)
    /\ UNCHANGED <<now, categories, inflight>>

NextFault ==
    \/ CreateInvestmentHandler
    \/ KytaWebhookHandler
    \/ KytaWebhookDropsError
    \/ RejectWithdrawal

SpecFault == Init /\ [][NextFault]_vars

(***************************************************************************)
(* Deliveries of the purchase webhook handled concurrently: a delivery     *)
(* reads the payment and the investment, then runs its transaction.        *)
(***************************************************************************)
KytaWebhookRead(k) ==
    /\ webhookReq[k].pc = "idle"
    /\ \E i \in DOMAIN investments, status \in StatusInputs :
          LET p == CHOOSE x \in PaymentsByOrderID(DB, InvOrderID(i)) : TRUE
              success == IsSuccessStatus(status)
              d1 == UpdatePayment(DB, p, success, GatewayPaymentID)
          IN  /\ Store(d1)
              /\ webhookReq' = [webhookReq EXCEPT ![k] =
                    IF WebhookIgnores(d1.investments[i])
                    THEN Idle
                    ELSE [pc |-> "tx", inv |-> i, success |-> success]]
    /\ UNCHANGED <<now, categories, cronReq, rejectReq, payoutCalls, approveReq>>

KytaWebhookCommit(k) ==
    /\ webhookReq[k].pc = "tx"
    /\ \E fault \in {"none", "rollback"} :
          Store(WebhookTx(DB, webhookReq[k].inv, webhookReq[k].success, now, fault))
    /\ webhookReq' = [webhookReq EXCEPT ![k] = Idle]
    /\ UNCHANGED <<now, categories, cronReq, rejectReq, payoutCalls, approveReq>>

NextWebhook ==
    \/ CreateInvestmentHandler
    \/ \E k \in Workers : KytaWebhookRead(k)
    \/ \E k \in Workers : KytaWebhookCommit(k)

SpecWebhook == Init /\ [][NextWebhook]_vars

(***************************************************************************)
(* Scheduler runs that overlap: a run selects its due list, then settles   *)
(* the investments of the list one transaction at a time, each from the    *)
(* row as selected.  SELECT ... FOR UPDATE on the owner's row makes the    *)
(* transactions of one user follow one another.                            *)
(***************************************************************************)
CronSelect(k) ==
    /\ cronReq[k].pc = "idle"
    /\ Due(DB, now) # {}
    /\ cronReq' = [cronReq EXCEPT ![k] =
          [pc |-> "loop", due |-> [i \in Due(DB, now) |-> investments[i]]]]
    /\ UNCHANGED <<now, tables, webhookReq, rejectReq, payoutCalls, approveReq>>

CronSettle(k) ==
    /\ cronReq[k].pc = "loop"
    /\ LET due == cronReq[k].due
           i == CHOOSE x \in DOMAIN due : \A y \in DOMAIN due : x <= y
           rest == [j \in DOMAIN due \ {i} |-> due[j]]
       IN  /\ \E rollback \in BOOLEAN :
                Store(IF rollback THEN DB ELSE Settle(DB, i, due[i], now))
           /\ cronReq' = [cronReq EXCEPT ![k] =
                 IF DOMAIN rest = {} THEN Idle ELSE [pc |-> "loop", due |-> rest]]
    /\ UNCHANGED <<now, categories, webhookReq, rejectReq, payoutCalls, approveReq>>

NextCron ==
    \/ Tick
    \/ CreateInvestmentHandler
    \/ KytaWebhookHandler
    \/ \E k \in Workers : CronSelect(k)
    \/ \E k \in Workers : CronSettle(k)

SpecCron == Init /\ [][NextCron]_vars

(***************************************************************************)
(* A rejection running next to other requests: it reads the withdrawal,    *)
(* begins its transaction, reads the user row with a plain SELECT, and     *)
(* writes the whole row back when it saves it.                             *)
(***************************************************************************)
RejectLoad ==
    /\ rejectReq.pc = "idle"
    /\ \E w \in WithdrawalIDs :
          /\ withdrawals[w].Status = "Pending"
          /\ rejectReq' = [pc |-> "begun", id |-> w, withdrawal |-> withdrawals[w]]
    /\ UNCHANGED <<now, tables, webhookReq, cronReq, payoutCalls, approveReq>>

RejectReadUser ==
    /\ rejectReq.pc = "begun"
    /\ rejectReq' = [rejectReq EXCEPT !.pc = "read"] @@
                    [user |-> users[rejectReq.withdrawal.UserID]]
    /\ UNCHANGED <<now, tables, webhookReq, cronReq, payoutCalls, approveReq>>

RejectCommit ==
    /\ rejectReq.pc = "read"
    /\ \E dbOK \in BOOLEAN :
          Store(IF dbOK
                THEN RejectTx(DB, rejectReq.id, rejectReq.withdrawal, rejectReq.user)
                ELSE DB)
    /\ rejectReq' = Idle
    /\ UNCHANGED <<now, categories, webhookReq, cronReq, payoutCalls, approveReq>>

NextReject ==
    \/ Tick
    \/ CreateInvestmentHandler
    \/ KytaWebhookHandler
    \/ CronDailyReturnsHandler
    \/ RejectLoad
    \/ RejectReadUser
    \/ RejectCommit

SpecReject == Init /\ [][NextReject]_vars

(***************************************************************************)
(* Approvals running next to each other and to a rejection: an approval    *)
(* reads the withdrawal and checks that it is Pending, reads the settings  *)
(* and sends the payout request to the gateway when approvals are          *)
(* automatic, then writes the row it has read back as Success.             *)
(***************************************************************************)
\* database.DB.First(&withdrawal, id) and the check of its status; a call
\* that is refused returns at once
ApproveLoad(k) ==
    /\ approveReq[k].pc = "idle"
    /\ \E w \in WithdrawalIDs :
          /\ ApproveAccepts(withdrawals[w])
          /\ approveReq' = [approveReq EXCEPT ![k] =
                [pc |-> "checked", id |-> w, withdrawal |-> withdrawals[w],
                 payout |-> FALSE]]
    /\ UNCHANGED <<now, tables, webhookReq, cronReq, rejectReq, payoutCalls>>

\* the settings, and in automatic mode the bank account, the token exchange
\* and the payout transfer for withdrawal.OrderID; payout records that the
\* transfer has been requested and accepted
ApproveSend(k) ==
    /\ approveReq[k].pc = "checked"
    /\ \E autoWithdraw \in BOOLEAN, fault \in ApproveFaults \ {"db"} :
          approveReq' = [approveReq EXCEPT ![k] =
              IF fault = "setting" THEN Idle
              ELSE IF ~autoWithdraw THEN [@ EXCEPT !.pc = "paid"]
              ELSE IF fault # "none" THEN Idle
              ELSE [@ EXCEPT !.pc = "paid", !.payout = TRUE]]
    /\ UNCHANGED <<now, tables, webhookReq, cronReq, rejectReq, payoutCalls>>

\* tx := database.DB.Begin() ... tx.Commit()
ApproveCommit(k) ==
    /\ approveReq[k].pc = "paid"
    /\ \E dbOK \in BOOLEAN :
          Store(IF dbOK
                THEN ApproveTx(DB, approveReq[k].id, approveReq[k].withdrawal)
                ELSE DB)
    /\ approveReq' = [approveReq EXCEPT ![k] = Idle]
    /\ UNCHANGED <<now, categories, webhookReq, cronReq, rejectReq, payoutCalls>>

NextApprove ==
    \/ CreateInvestmentHandler
    \/ KytaWebhookHandler
    \/ RejectWithdrawal
    \/ \E k \in Workers : ApproveLoad(k)
    \/ \E k \in Workers : ApproveSend(k)
    \/ \E k \in Workers : ApproveCommit(k)

SpecApprove == Init /\ [][NextApprove]_vars

(***************************************************************************)
(* The scheduler over unbounded time.  Time is measured from now: when a   *)
(* period passes, the reading of the clock is kept and every stored time   *)
(* is one tick earlier.  A time that would fall before the origin is kept  *)
(* at the origin: the program only compares a stored time with now.        *)
(* The scheduler is triggered again and again, and no investment's         *)
(* settlement fails for ever.  The purchases have been made before: the    *)
(* investments start as CreateInvestmentHandler and KytaWebhookHandler     *)
(* have left them.                                                         *)
(***************************************************************************)
\* the purchases made before: user, product, method and channel, and the
\* status the gateway has delivered for the payment (<<>> for none yet)
EarlierOrders ==
    [1..MaxInvestments ->
        UserIDs \X ProductIDs \X {<<"BANK", "BCA">>}
                \X {<<"success">>, <<"FAILED">>, <<>>}]

\* the database after the first n of the purchases, each handled by
\* CreateInvestmentHandler and then, when its status has been delivered, by
\* KytaWebhookHandler
RECURSIVE Ordered(_, _, _)
Ordered(d, orders, n) ==
    IF n = 0
    THEN d
    ELSE LET o == orders[n]
             before == Ordered(d, orders, n - 1)
             created == CreateInvestment(before, o[1], o[2], o[3][1], o[3][2], "none").db
         IN  IF Len(created.investments) = Len(before.investments) \/ o[4] = <<>>
             THEN created
             ELSE KytaWebhook(created, InvOrderID(Len(created.investments)), o[4][1],
                              GatewayPaymentID, "none").db

InitLive ==
    /\ now = 0
    /\ categories = [c \in {1, 2} |-> [ProfitType |-> IF c = 1 THEN "locked" ELSE "unlocked"]]
    /\ \E orders \in EarlierOrders :
          LET d == Ordered(
                     [users |-> [u \in UserIDs |-> InitUser(u)],
                      investments |-> <<>>,
                      payments |-> <<>>,
                      transactions |->
                          SetToBag({[Trx(1, 30000, WdOrderID(1), "debit", "withdraw",
                                         "Penarikan", "Pending", 0) EXCEPT !.Charge = 3000]}),
                      withdrawals |-> [w \in WithdrawalIDs |-> InitWithdrawal(1)]],
                     orders, MaxInvestments)
          IN  /\ users = d.users
              /\ investments = d.investments
              /\ payments = d.payments
              /\ transactions = d.transactions
              /\ withdrawals = d.withdrawals
    /\ webhookReq = [k \in Workers |-> Idle]
    /\ cronReq = [k \in Workers |-> Idle]
    /\ rejectReq = Idle
    /\ payoutCalls = 0
    /\ approveReq = [k \in Workers |-> Idle]

Earlier(at) ==
    IF at = None THEN None
    ELSE Some(IF Head(at) > TickHours THEN Head(at) - TickHours ELSE 0)

MoveOrigin(d) ==
    [d EXCEPT !.investments =
        [i \in DOMAIN d.investments |->
            [d.investments[i] EXCEPT !.NextReturnAt = Earlier(@),
                                     !.LastReturnAt = Earlier(@)]]]

PeriodPasses ==
    /\ Store(MoveOrigin(DB))
    /\ UNCHANGED <<now, categories, inflight>>

\* a run of the scheduler in which the transaction of investment i commits
SettledByRun(i) ==
    /\ i \in Due(DB, now)
    /\ \E failed \in SUBSET (Due(DB, now) \ {i}) :
          \E d \in {CronDailyReturns(DB, TRUE, failed, now).db} : Store(d)
    /\ UNCHANGED <<now, categories, inflight>>

NextLive ==
    \/ PeriodPasses
    \/ CronDailyReturnsHandler

SpecLive ==
    /\ InitLive
    /\ [][NextLive]_vars
    /\ WF_vars(PeriodPasses)
    /\ \A i \in 1..MaxInvestments : WF_vars(SettledByRun(i))

(***************************************************************************)
(* The catalogue is edited while investments run: an administrator changes *)
(* the profit type of a category.                                          *)
(***************************************************************************)
\* the categories as db.sql has them
Catalogue == [c \in {1, 2} |-> [ProfitType |-> IF c = 1 THEN "locked" ELSE "unlocked"]]

\* one edit is followed: the catalogue is as db.sql has it until then
UpdateCategory ==
    /\ categories = Catalogue
    /\ \E c \in DOMAIN categories, profitType \in {"locked", "unlocked"} :
          /\ categories[c].ProfitType # profitType
          /\ categories' = [categories EXCEPT ![c].ProfitType = profitType]
    /\ UNCHANGED <<now, users, investments, payments, transactions, withdrawals, inflight>>

NextCategory ==
    \/ Tick
    \/ CreateInvestmentHandler
    \/ KytaWebhookHandler
    \/ CronDailyReturnsHandler
    \/ UpdateCategory

SpecCategory == Init /\ [][NextCategory]_vars

(***************************************************************************)
(* Users who have invested before: user 2 starts with a total of earlier   *)
(* locked investments (their rows are not in the tables of the model) and  *)
(* the level that goes with it, and buys and confirms from there.          *)
(***************************************************************************)
EarlierTotals == {0, 900000, 1000000, 6800000, 29800000, 149800000, 150000000}

InitEarlier(v) ==
    [InitUser(2) EXCEPT !.TotalInvest = v, !.TotalInvestVIP = v,
                        !.Level = calculateVIPLevel(v),
                        !.InvestmentStatus = IF v > 0 THEN "Active" ELSE "Inactive"]

InitVIP ==
    /\ now = 0
    /\ \E v \in EarlierTotals :
          users = [u \in UserIDs |-> IF u = 2 THEN InitEarlier(v) ELSE InitUser(u)]
    /\ categories = [c \in {1, 2} |-> [ProfitType |-> IF c = 1 THEN "locked" ELSE "unlocked"]]
    /\ investments = <<>>
    /\ payments = <<>>
    /\ withdrawals = [w \in WithdrawalIDs |-> InitWithdrawal(1)]
    /\ transactions = SetToBag({[Trx(1, 30000, WdOrderID(1), "debit", "withdraw",
                                     "Penarikan", "Pending", 0) EXCEPT !.Charge = 3000]})
    /\ webhookReq = [k \in Workers |-> Idle]
    /\ cronReq = [k \in Workers |-> Idle]
    /\ rejectReq = Idle
    /\ payoutCalls = 0
    /\ approveReq = [k \in Workers |-> Idle]

NextVIP ==
    \/ CreateInvestmentHandler
    \/ KytaWebhookHandler

SpecVIP == InitVIP /\ [][NextVIP]_vars

(***************************************************************************)
(* Properties                                                              *)
(***************************************************************************)
RECURSIVE Sum(_, _)
Sum(f, S) ==
    IF S = {} THEN 0
    ELSE LET x == CHOOSE y \in S : TRUE IN f[x] + Sum(f, S \ {x})

\* the rows of the ledger that the confirmation or the settlement of
\* investment i has written with the given message
RowCount(i, message) ==
    BagCardinality([r \in {x \in DOMAIN transactions :
                               x.ForInv = i /\ x.Message = message} |-> transactions[r]])

\* what the ledger says a user has been credited: profits, principal and
\* bonuses recorded, and the amounts of the withdrawals recorded as Failed
IsCredit(r) ==
    \/ r.TransactionType \in {"return", "team"} /\ r.Status = "Success"
    \/ r.TransactionType = "withdraw" /\ r.Status = "Failed"

LedgerBalance(trxs, u) ==
    Sum([r \in DOMAIN trxs |-> r.Amount * trxs[r]],
        {r \in DOMAIN trxs : r.UserID = u /\ IsCredit(r)})

Confirmed(inv) == inv.Status \in {"Running", "Completed"}

ConfirmedOf(u, lockedOnly) ==
    {i \in DOMAIN investments :
        /\ investments[i].UserID = u
        /\ Confirmed(investments[i])
        /\ lockedOnly => categories[investments[i].CategoryID].ProfitType = "locked"}

HasReferrer(i) == users[investments[i].UserID].ReffBy # None

TicketsOf(u) == IF users[u].SpinTicket = None THEN 0 ELSE Head(users[u].SpinTicket)

TicketsEarned(u) ==
    Cardinality({i \in DOMAIN investments :
        /\ Confirmed(investments[i])
        /\ users[investments[i].UserID].ReffBy = Some(u)
        /\ investments[i].Amount >= SpinTicketMinAmount})

\* the effects of a confirmation are in the tables once for every confirmed
\* investment and not at all for the others
ConfirmationAppliedOnce ==
    /\ \A u \in UserIDs :
          /\ users[u].TotalInvest =
                Sum([i \in DOMAIN investments |-> investments[i].Amount], ConfirmedOf(u, FALSE))
          /\ users[u].TotalInvestVIP =
                Sum([i \in DOMAIN investments |-> investments[i].Amount], ConfirmedOf(u, TRUE))
          /\ users[u].Level = calculateVIPLevel(users[u].TotalInvestVIP)
          /\ TicketsOf(u) = TicketsEarned(u)
    /\ \A i \in DOMAIN investments :
          RowCount(i, "Bonus") = IF Confirmed(investments[i]) /\ HasReferrer(i) THEN 1 ELSE 0

\* C1: when a success delivery for an order has been handled, the effects of
\* the confirmation (the investor's totalInvest, totalInvestVIP and level, the
\* referrer's spin ticket and 'team' Transaction) are in the tables exactly
\* once, and another success delivery for the same order, handled after the
\* first, changes no user, no Transaction and no investment.
C1_SecondDeliveryChangesNothing ==
    /\ ConfirmationAppliedOnce
    /\ \A i \in DOMAIN investments, status \in StatusInputs :
          Confirmed(investments[i]) /\ IsSuccessStatus(status) =>
              LET again == KytaWebhook(DB, InvOrderID(i), status, GatewayPaymentID, "none").db
              IN  /\ again.users = users
                  /\ again.transactions = transactions
                  /\ again.investments = investments

\* a referred user's investment that earns a spin ticket has been confirmed by
\* a success delivery: the case in which a second delivery has something to repeat
C1_Witness ==
    \E i \in DOMAIN investments :
        /\ Confirmed(investments[i])
        /\ payments[i].Status = "Success"
        /\ HasReferrer(i)
        /\ investments[i].Amount >= SpinTicketMinAmount
        /\ RowCount(i, "Bonus") = 1
        /\ users[1].Balance >= round3(investments[i].Amount * BonusPercent, 100)

\* C2: a scheduler run that follows another with no time elapsed changes no
\* investment the first has settled (totalPaid, totalReturned) and, when the
\* first has settled all that was due, no balance and no Transaction; an
\* investment settled at the current time is not due at the current time.
C2_SecondRunChangesNothing ==
    /\ \A i \in DOMAIN investments :
          investments[i].LastReturnAt = Some(now) => ~IsDue(investments[i], now)
    /\ \A failed \in SUBSET Due(DB, now) :
          LET first == CronDailyReturns(DB, TRUE, failed, now).db
              second == CronDailyReturns(first, TRUE, {}, now).db
          IN  /\ \A i \in DOMAIN investments \ failed :
                    second.investments[i] = first.investments[i]
              /\ failed = {} =>
                    /\ second.users = first.users
                    /\ second.transactions = first.transactions

\* a run has just settled an investment that is still Running with periods left
C2_Witness ==
    \E i \in DOMAIN investments :
        /\ investments[i].LastReturnAt = Some(now)
        /\ investments[i].Status = "Running"
        /\ investments[i].TotalPaid >= 1
        /\ investments[i].TotalPaid < investments[i].Duration

\* C3: with scheduler runs that overlap, no investment is paid twice for one
\* period: it has at most one daily-profit Transaction per period paid, at
\* most one total-profit Transaction and at most one principal Transaction.
C3_PaidOncePerPeriod ==
    \A i \in DOMAIN investments :
        /\ RowCount(i, "Profit") <= investments[i].TotalPaid
        /\ RowCount(i, "TotalProfit") <= 1
        /\ RowCount(i, "Modal") <= 1

\* C4: with two success deliveries for one order handled concurrently, the
\* effects of the confirmation are applied exactly once.
C4_ConcurrentDeliveriesApplyOnce ==
    (\A k \in Workers : webhookReq[k].pc = "idle") => ConfirmationAppliedOnce

\* C5: in every reachable state 0 <= totalPaid <= durationPeriods, and a
\* Completed investment has totalPaid = durationPeriods.
C5_TotalPaidWithinDuration ==
    \A i \in DOMAIN investments :
        /\ 0 <= investments[i].TotalPaid
        /\ investments[i].TotalPaid <= investments[i].Duration
        /\ investments[i].Status = "Completed" =>
              investments[i].TotalPaid = investments[i].Duration

\* C6: a Completed investment of a locked category has exactly one Transaction
\* crediting dailyProfit x durationPeriods, exactly one crediting the
\* principal, and none crediting a single dailyProfit.
C6_LockedPaidOnceAtCompletion ==
    \A i \in DOMAIN investments :
        /\ investments[i].Status = "Completed"
        /\ categories[investments[i].CategoryID].ProfitType = "locked"
        => /\ RowCount(i, "TotalProfit") = 1
           /\ RowCount(i, "Modal") = 1
           /\ RowCount(i, "Profit") = 0

\* C7: a Completed investment of an unlocked category has exactly
\* durationPeriods Transactions crediting dailyProfit and exactly one
\* crediting the principal.
C7_UnlockedPaidEveryPeriod ==
    \A i \in DOMAIN investments :
        /\ investments[i].Status = "Completed"
        /\ categories[investments[i].CategoryID].ProfitType = "unlocked"
        => /\ RowCount(i, "Profit") = investments[i].Duration
           /\ RowCount(i, "Modal") = 1
           /\ RowCount(i, "TotalProfit") = 0

\* C8: every step changes a user's balance by exactly the amount the
\* Transactions committed in the same step record for that user: there is no
\* step with a credit and no row for it, nor a row and no credit.
C8_BalanceChangesWithLedger ==
    [][\A u \in UserIDs :
          users'[u].Balance - users[u].Balance =
              LedgerBalance(transactions', u) - LedgerBalance(transactions, u)]_vars

\* the Status values of the Transactions that carry the orderId of withdrawal w
WithdrawTrxStatuses(trxs, w) ==
    {r.Status : r \in {x \in DOMAIN trxs : x.OrderID = withdrawals[w].OrderID}}

\* C9: the step that rejects a Pending withdrawal of amount A adds exactly A
\* to the owner's balance and sets the Withdrawal and the Transactions of its
\* orderId to Failed; no step does one of the three without the others.
C9_RejectRefundsAmount ==
    [][\A w \in WithdrawalIDs :
          LET u == withdrawals[w].UserID
              rejected == withdrawals[w].Status = "Pending" /\ withdrawals'[w].Status = "Failed"
          IN  /\ rejected => /\ users'[u].Balance = users[u].Balance + withdrawals[w].Amount
                             /\ WithdrawTrxStatuses(transactions', w) = {"Failed"}
              /\ ~rejected => /\ withdrawals'[w] = withdrawals[w]
                              /\ WithdrawTrxStatuses(transactions', w) =
                                     WithdrawTrxStatuses(transactions, w)
                              /\ LedgerBalance(transactions', u) - LedgerBalance(transactions, u)
                                     = users'[u].Balance - users[u].Balance]_vars

\* the withdrawal has been rejected: it and its Transaction are Failed and its
\* amount, not the amount after the charge, is back on the balance
C9_Witness ==
    \E w \in WithdrawalIDs :
        /\ withdrawals[w].Status = "Failed"
        /\ WithdrawTrxStatuses(transactions, w) = {"Failed"}
        /\ withdrawals[w].Amount # withdrawals[w].FinalAmount
        /\ users[withdrawals[w].UserID].Balance = withdrawals[w].Amount

\* C10: with a rejection running next to settlements and bonus credits of the
\* same user, the balance holds every credit the ledger records once no
\* rejection is in flight: no credit is lost.
C10_NoLostCredit ==
    rejectReq.pc = "idle" =>
        \A u \in UserIDs : users[u].Balance = LedgerBalance(transactions, u)

\* C11: a delivery of the purchase webhook, success or failure, for an
\* investment that is not Pending is answered 200 and changes nothing: no
\* Investment, Payment, Transaction or User field.
C11_ResolvedDeliveryIsNoOp ==
    \A i \in DOMAIN investments, status \in StatusInputs :
        investments[i].Status # "Pending" =>
            LET r == KytaWebhook(DB, InvOrderID(i), status, GatewayPaymentID, "none")
            IN  /\ r.resp.code = 200
                /\ r.db = DB

\* C12: no investment leaves Completed or Cancelled: no step changes the
\* status of an investment that is Completed or Cancelled.
C12_TerminalStatusStays ==
    [][\A i \in DOMAIN investments :
          investments[i].Status \in {"Completed", "Cancelled"} =>
              investments'[i].Status = investments[i].Status]_vars

\* the investments a step confirms: Pending before, Running after
ConfirmedByStep ==
    {i \in DOMAIN investments :
        investments[i].Status = "Pending" /\ investments'[i].Status = "Running"}

\* of those, the ones whose investor was referred by user u
ReferredBy(u, S) == {i \in S : users[investments[i].UserID].ReffBy = Some(u)}

Tickets(user) == IF user.SpinTicket = None THEN 0 ELSE Head(user.SpinTicket)

\* the 'team' rows of the ledger that credit user u: how many, and their sum
TeamRows(trxs, u) ==
    {r \in DOMAIN trxs : r.UserID = u /\ r.TransactionType = "team"
                         /\ r.TransactionFlow = "debit" /\ r.Status = "Success"}

TeamCount(trxs, u) == BagCardinality([r \in TeamRows(trxs, u) |-> trxs[r]])

TeamTotal(trxs, u) == Sum([r \in DOMAIN trxs |-> r.Amount * trxs[r]], TeamRows(trxs, u))

Tier(total) ==
    Cardinality({t \in {50000, 1200000, 7000000, 30000000, 150000000} : t <= total})

\* C14: the step in which a success delivery confirms a Pending investment of
\* a locked category adds the amount to the investor's totalInvestVIP and
\* leaves the level at the tier of the new total (1 from 50,000, 2 from
\* 1,200,000, 3 from 7,000,000, 4 from 30,000,000, 5 from 150,000,000, else
\* 0); confirming an investment of an unlocked category changes neither.
C14_LevelIsTierOfTotal ==
    [][\A i \in ConfirmedByStep :
          LET u == investments[i].UserID
          IN  IF categories[investments[i].CategoryID].ProfitType = "locked"
              THEN /\ users'[u].TotalInvestVIP =
                          users[u].TotalInvestVIP + investments[i].Amount
                   /\ users'[u].Level = Tier(users'[u].TotalInvestVIP)
              ELSE /\ users'[u].TotalInvestVIP = users[u].TotalInvestVIP
                   /\ users'[u].Level = users[u].Level]_vars

\* a locked investment has taken the total of user 2 to exactly 7,000,000 and
\* the level to 3
C14_Witness ==
    /\ users[2].TotalInvestVIP = 7000000
    /\ users[2].Level = 3
    /\ \E i \in DOMAIN investments :
          /\ investments[i].UserID = 2
          /\ investments[i].Status = "Running"
          /\ categories[investments[i].CategoryID].ProfitType = "locked"

\* the 'investment' credit Transactions that carry a given orderId
InvestmentTrxs(trxs, orderID) ==
    {r \in DOMAIN trxs : r.OrderID = orderID /\ r.TransactionType = "investment"
                         /\ r.TransactionFlow = "credit"}

\* the orderIds for which one of the three rows exists
OrdersOf(invs, pays, trxs) ==
    {invs[i].OrderID : i \in DOMAIN invs} \cup {pays[i].OrderID : i \in DOMAIN pays}
        \cup {r.OrderID : r \in {x \in DOMAIN trxs : x.TransactionType = "investment"}}

\* an orderId has its Investment, its Payment and its one Transaction
HasAllThree(invs, pays, trxs, orderID) ==
    /\ \E i \in DOMAIN invs : invs[i].OrderID = orderID
    /\ \E i \in DOMAIN pays : pays[i].OrderID = orderID
    /\ BagCardinality([r \in InvestmentTrxs(trxs, orderID) |-> trxs[r]]) = 1

\* C15: in every state an orderId has its Investment, Payment and
\* 'investment' credit Transaction or none of them; a create call whose token
\* exchange, create-charge call or database transaction fails leaves the
\* tables as they were; and the three rows a create call adds are all Pending.
C15_CreateAllOrNothing ==
    /\ [](\A o \in OrdersOf(investments, payments, transactions) :
              HasAllThree(investments, payments, transactions, o))
    /\ [](\A uid \in UserIDs, productID \in ProductIDs, pay \in PaymentInputs,
              fault \in {"token", "charge", "db"} :
              CreateInvestment(DB, uid, productID, pay[1], pay[2], fault).db = DB)
    /\ [][\A i \in DOMAIN investments' \ DOMAIN investments :
              /\ investments'[i].Status = "Pending"
              /\ payments'[i].Status = "Pending"
              /\ payments'[i].OrderID = investments'[i].OrderID
              /\ \A r \in InvestmentTrxs(transactions', investments'[i].OrderID) :
                    r.Status = "Pending"]_vars

\* a create call has gone through: the three rows of its order, all Pending
C15_Witness ==
    \E i \in DOMAIN investments :
        /\ investments[i].Status = "Pending"
        /\ payments[i].Status = "Pending"
        /\ payments[i].OrderID = investments[i].OrderID
        /\ \E r \in InvestmentTrxs(transactions, investments[i].OrderID) :
              r.Status = "Pending" /\ r.Amount = investments[i].Amount

\* a create request of user uid for product productID, paid by method,
\* violates a policy
ViolatesPolicy(uid, productID, method) ==
    LET product == Products[productID]
        bought == Cardinality({i \in DOMAIN investments :
                      /\ investments[i].UserID = uid
                      /\ investments[i].ProductID = productID
                      /\ investments[i].Status \in {"Running", "Completed", "Suspended"}})
    IN  \/ product.Status # "Active"
        \/ users[uid].Level < product.RequiredVIP
        \/ product.PurchaseLimit > 0 /\ bought >= product.PurchaseLimit
        \/ method = "QRIS" /\ product.Amount > QRISMaxAmount
        \/ method = "BANK" /\ product.Amount < BankMinAmount

\* C16: a create request that violates a policy (product not Active, level
\* below requiredVIP, purchase limit reached, QRIS amount above 10,000,000,
\* BANK amount below 10,000) is rejected with no call to the payment gateway
\* made and nothing persisted.
C16_PolicyBeforeGateway ==
    \A uid \in UserIDs, productID \in ProductIDs, pay \in {<<"QRIS", "">>, <<"BANK", "BCA">>},
       fault \in CreateFaults :
        ViolatesPolicy(uid, productID, pay[1]) =>
            LET r == CreateInvestment(DB, uid, productID, pay[1], pay[2], fault)
            IN  /\ r.resp.code = 400
                /\ r.resp.gateway = {}
                /\ r.db = DB

\* the investments of user uid in product productID that count for the limit
CountedPurchases(uid, productID) ==
    Cardinality({i \in DOMAIN investments :
        /\ investments[i].UserID = uid
        /\ investments[i].ProductID = productID
        /\ investments[i].Status \in {"Running", "Completed", "Suspended"}})

\* C17: for a product with purchaseLimit L > 0 a create request of user U,
\* otherwise valid, is rejected iff U has at least L investments of the
\* product in status Running, Completed or Suspended; with purchaseLimit 0 it
\* is never rejected for the count.
C17_PurchaseLimit ==
    \A uid \in UserIDs, productID \in ProductIDs :
        /\ Products[productID].Status = "Active"
        /\ users[uid].Level >= Products[productID].RequiredVIP
        => LET limit == Products[productID].PurchaseLimit
               r == CreateInvestment(DB, uid, productID, "BANK", "BCA", "none")
               rejected == r.resp.code = 400 /\ r.db = DB
               accepted == r.resp.code = 201 /\ Len(r.db.investments) = Len(investments) + 1
           IN  /\ rejected = (limit > 0 /\ CountedPurchases(uid, productID) >= limit)
               /\ accepted = ~rejected

\* a user has a confirmed investment of the product limited to 1 and the
\* request for another is rejected, while a user whose investment of that
\* product is still Pending is not rejected
C17_Witness ==
    \E i \in DOMAIN investments :
        /\ Products[investments[i].ProductID].PurchaseLimit = 1
        /\ investments[i].Status = "Running"
        /\ CreateInvestment(DB, investments[i].UserID, investments[i].ProductID,
                            "BANK", "BCA", "none").resp.code = 400
        /\ \E j \in DOMAIN investments :
              /\ investments[j].ProductID = investments[i].ProductID
              /\ investments[j].Status = "Pending"
              /\ investments[j].UserID # investments[i].UserID

\* the Status values of the 'investment' Transactions of investment i
InvestmentTrxStatuses(trxs, i) ==
    {r.Status : r \in InvestmentTrxs(trxs, investments[i].OrderID)}

\* C18: a step cancels a Pending investment iff it sets the Transaction of
\* the investment to Failed (never one without the other), and such a step
\* changes no field of any user.
C18_CancelledWithTransaction ==
    [][\A i \in DOMAIN investments :
          LET cancelled == /\ investments[i].Status = "Pending"
                           /\ investments'[i].Status = "Cancelled"
              failed == /\ InvestmentTrxStatuses(transactions, i) = {"Pending"}
                        /\ InvestmentTrxStatuses(transactions', i) = {"Failed"}
          IN  /\ cancelled = failed
              /\ cancelled \/ failed => users' = users]_vars

\* C19: a success delivery for a Pending investment whose transaction rolls
\* back, so that the investment stays Pending, is answered with a status
\* other than 200; the answer is 200 only when the delivery has taken the
\* investment to Running or Cancelled or has been ignored.
C19_RollbackIsReported ==
    \A i \in DOMAIN investments, status \in StatusInputs, fault \in {"none", "rollback"} :
        LET r == KytaWebhook(DB, InvOrderID(i), status, GatewayPaymentID, fault)
        IN  r.resp.code = 200 =>
                \/ investments[i].Status # "Pending"
                \/ r.db.investments[i].Status \in {"Running", "Cancelled"}

\* C20: approve and reject called on a withdrawal that is Success or Failed
\* answer with an error and change nothing (not the Withdrawal, not its
\* Transaction, not the balance), and approve makes no call to the gateway;
\* called on a Pending withdrawal with nothing failing they are accepted.
C20_OnlyFromPending ==
    \A w \in WithdrawalIDs :
        /\ withdrawals[w].Status \in {"Success", "Failed"} =>
              /\ \A autoWithdraw \in BOOLEAN, fault \in ApproveFaults :
                    LET a == ApproveWithdrawalOf(DB, w, autoWithdraw, fault)
                    IN  a.resp.code >= 400 /\ a.db = DB /\ a.resp.gateway = {}
              /\ \A dbOK \in BOOLEAN :
                    LET r == RejectWithdrawalOf(DB, w, dbOK)
                    IN  r.resp.code >= 400 /\ r.db = DB
        /\ withdrawals[w].Status = "Pending" =>
              /\ \A autoWithdraw \in BOOLEAN :
                    LET a == ApproveWithdrawalOf(DB, w, autoWithdraw, "none")
                    IN  a.resp.code = 200 /\ a.db.withdrawals[w].Status = "Success"
              /\ LET r == RejectWithdrawalOf(DB, w, TRUE)
                 IN  r.resp.code = 200 /\ r.db.withdrawals[w].Status = "Failed"

\* the withdrawal has been approved: it and its Transaction are Success, the
\* balance has not been refunded, and purchases go on
C20_Witness ==
    \E w \in WithdrawalIDs :
        /\ withdrawals[w].Status = "Success"
        /\ WithdrawTrxStatuses(transactions, w) = {"Success"}
        /\ users[withdrawals[w].UserID].Balance > 0
        /\ Len(investments) > 0

\* a gateway step has failed: connection error, non-success HTTP status,
\* unparsable body, or a response code outside the 200 family
StepFailed(reply) ==
    \/ ~reply.conn
    \/ reply.http < 200 \/ reply.http >= 300
    \/ ~reply.parsed
    \/ ~HasPrefix(reply.code, <<2, 0, 0>>)

\* C21: in automatic mode, when the token exchange fails (also: the token is
\* empty) or the payout request fails, the approval answers with an error and
\* the withdrawal, its Transaction and the balance are as before; the
\* withdrawal and its Transaction become Success only when the payout
\* request has succeeded.
C21_GatewayFailureStaysPending ==
    \A w \in WithdrawalIDs :
        withdrawals[w].Status = "Pending" =>
            \A replies \in GatewayReplies \X GatewayReplies :
                LET a == ApproveWithdrawalOf(DB, w, TRUE,
                             ApproveFault(TRUE, replies[1], replies[2], TRUE))
                IN  /\ (StepFailed(replies[1]) \/ replies[1].token = ""
                            \/ StepFailed(replies[2])) =>
                           a.resp.code >= 400 /\ a.db = DB
                    /\ a.db.withdrawals[w].Status = "Success" =>
                           /\ ~StepFailed(replies[2])
                           /\ WithdrawTrxStatuses(a.db.transactions, w) = {"Success"}

\* C22: in manual mode the approval of a Pending withdrawal calls no gateway
\* and leaves every user row alone; either it answers 200 and the withdrawal
\* and every Transaction of its order id are Success, nothing else changed,
\* or it answers with an error and the database is as before; with nothing
\* failing it answers 200.
C22_ManualApproval ==
    \A w \in WithdrawalIDs :
        withdrawals[w].Status = "Pending" =>
            \A fault \in ApproveFaults \ {"setting"} :
                LET a == ApproveWithdrawalOf(DB, w, FALSE, fault)
                IN  /\ a.resp.gateway = {}
                    /\ a.db.users = users
                    /\ \/ /\ a.resp.code = 200
                          /\ a.db.withdrawals[w] = [withdrawals[w] EXCEPT !.Status = "Success"]
                          /\ WithdrawTrxStatuses(a.db.transactions, w) = {"Success"}
                          /\ a.db.transactions =
                                 UpdateTrxStatus(transactions, withdrawals[w].OrderID, "Success")
                          /\ a.db.investments = investments
                          /\ a.db.payments = payments
                       \/ /\ a.resp.code >= 400
                          /\ a.db = DB
                    /\ fault # "db" => a.resp.code = 200

\* the withdrawal has been approved before any purchase: it and its
\* Transaction are Success and the balance of its user is what it was
C22_Witness ==
    /\ withdrawals[1].Status = "Success"
    /\ WithdrawTrxStatuses(transactions, 1) = {"Success"}
    /\ users[1].Balance = 0
    /\ investments = <<>>

\* C23: a payout callback whose status is a success status, in whatever
\* letter case, is answered 200 and changes no Withdrawal and no Transaction,
\* whatever the status of the withdrawal.
C23_SuccessCallbackIgnored ==
    \A w \in WithdrawalIDs, status \in {"Success", "SUCCESS", "success"} :
        LET r == KytaPayoutWebhook(DB, withdrawals[w].OrderID, status, TRUE)
        IN  /\ r.resp.code = 200
            /\ r.db.withdrawals = withdrawals
            /\ r.db.transactions = transactions

\* C24: a payout callback with a status that is not a success status, for a
\* withdrawal that is Success, leaves every user row alone and never makes
\* the withdrawal Failed; either it answers 200 and the withdrawal and every
\* Transaction of its order id are Pending, nothing else changed, or it
\* answers with an error and the database is as before; with nothing failing
\* it answers 200.
C24_FailedPayoutBackToPending ==
    \A w \in WithdrawalIDs :
        withdrawals[w].Status = "Success" =>
            \A status \in {"Failed", "FAILED", "Pending"}, dbOK \in BOOLEAN :
                LET r == KytaPayoutWebhook(DB, withdrawals[w].OrderID, status, dbOK)
                IN  /\ r.db.users = users
                    /\ r.db.withdrawals[w].Status # "Failed"
                    /\ \/ /\ r.resp.code = 200
                          /\ r.db.withdrawals[w] = [withdrawals[w] EXCEPT !.Status = "Pending"]
                          /\ WithdrawTrxStatuses(r.db.transactions, w) = {"Pending"}
                          /\ r.db.transactions =
                                 UpdateTrxStatus(transactions, withdrawals[w].OrderID, "Pending")
                          /\ r.db.investments = investments
                          /\ r.db.payments = payments
                       \/ /\ r.resp.code >= 400
                          /\ r.db = DB
                    /\ dbOK => r.resp.code = 200

\* the withdrawal was approved, a callback said the payout had failed, and
\* the withdrawal, Pending again, has been approved once more: another
\* failed payout would set it back again
C24_Witness ==
    /\ payoutCalls = 1
    /\ withdrawals[1].Status = "Success"
    /\ users[1].Balance = 0
    /\ KytaPayoutWebhook(DB, withdrawals[1].OrderID, "FAILED", TRUE).db.withdrawals[1].Status
           = "Pending"

\* what the settlement of the due investment i alone adds to its owner's balance
CreditOf(i) ==
    Settle(DB, i, investments[i], now).users[investments[i].UserID].Balance
        - users[investments[i].UserID].Balance

\* C25: in a scheduler run where the transactions of some due investments
\* fail, each of those investments is as before (and so still due), no row of
\* the ledger is written for it, every other due investment is settled for one
\* period, and each balance grows by what the settled investments of the user
\* credit, by nothing for the failed ones.
C25_FailureIsIsolated ==
    \A failed \in SUBSET Due(DB, now) :
        LET run == CronDailyReturns(DB, TRUE, failed, now)
            settled == Due(DB, now) \ failed
        IN  /\ \A i \in failed :
                  /\ run.db.investments[i] = investments[i]
                  /\ IsDue(run.db.investments[i], now)
                  /\ \A r \in DOMAIN run.db.transactions :
                        r.ForInv = i => /\ r \in DOMAIN transactions
                                        /\ run.db.transactions[r] = transactions[r]
            /\ \A i \in settled :
                  /\ run.db.investments[i].TotalPaid = investments[i].TotalPaid + 1
                  /\ run.db.investments[i].LastReturnAt = Some(now)
                  /\ ~IsDue(run.db.investments[i], now)
            /\ \A u \in UserIDs :
                  run.db.users[u].Balance =
                      users[u].Balance
                      + Sum([i \in settled |-> CreditOf(i)],
                            {i \in settled : investments[i].UserID = u})
            /\ run.resp.processed = Cardinality(settled)

\* a run has settled one of two investments that were due and left the other
\* one, whose transaction failed, as it was: still due, nothing paid
C25_Witness ==
    \E i, j \in DOMAIN investments :
        /\ i # j
        /\ investments[i].UserID = investments[j].UserID
        /\ IsDue(investments[i], now)
        /\ investments[i].TotalPaid = 0
        /\ investments[j].LastReturnAt = Some(now)
        /\ investments[j].TotalPaid = 1
        /\ users[investments[j].UserID].Balance > 0

\* C26: a step that changes the profit type of a category changes nothing of
\* what the settlement of an investment that is Running at that moment does:
\* the settlement of the investment, from the same rows at the same time,
\* leaves the same database after the step as before it.
C26_PolicyFixedAtCreation ==
    [][categories' # categories =>
          \A i \in DOMAIN investments :
              investments[i].Status = "Running" =>
                  Settle(DB, i, investments[i], now)' = Settle(DB, i, investments[i], now)]_vars

\* an answer that is well-formed and carries the response code
Coded(code) == Reply(TRUE, 200, TRUE, code, "token")

\* C27: for the token exchange, the create-charge call and the create-payout
\* call, and for every response code, the empty one too: the call succeeds if
\* and only if the code begins with "200"; with a code that does not, a
\* purchase persists nothing and an approval leaves the withdrawal Pending.
C27_SuccessIsThe200Family ==
    \A code \in ResponseCodes :
        LET family == HasPrefix(code, <<2, 0, 0>>)
        IN  /\ getKytaAccessTokenSafe(Coded(code)) <=> family
            /\ createKytaPaymentSafe(Coded(code), <<2, 0, 0, 1, 1, 0, 0>>) <=> family
            /\ createKytaPaymentSafe(Coded(code), <<2, 0, 0, 1, 2, 0, 0>>) <=> family
            /\ ApproveTokenOK(Coded(code)) <=> family
            /\ ApprovePayoutOK(Coded(code)) <=> family
            /\ ~family =>
                  /\ \A uid \in UserIDs, productID \in ProductIDs, pay \in PaymentInputs,
                        replies \in {<<Coded(code), GoodReply>>, <<GoodReply, Coded(code)>>} :
                        CreateInvestment(DB, uid, productID, pay[1], pay[2],
                            CreateFault(pay[1], replies[1], replies[2], TRUE)).db = DB
                  /\ \A w \in WithdrawalIDs,
                        replies \in {<<Coded(code), GoodReply>>, <<GoodReply, Coded(code)>>} :
                        withdrawals[w].Status = "Pending" =>
                            ApproveWithdrawalOf(DB, w, TRUE,
                                ApproveFault(TRUE, replies[1], replies[2], TRUE)).db = DB

\* the claim's rule: settings exist, the user is not on the exemption list,
\* and the amount is at least the threshold
MaskingApplies(ps, withdrawal) ==
    /\ ps.ID # 0
    /\ withdrawal.UserID \notin ps.Wishlist
    /\ withdrawal.Amount >= ps.WithdrawAmount

\* C28: for every withdrawal and every state of the payment settings, the
\* listing and the payout of an automatic approval name the same destination:
\* under the claim's rule both name the bank and the account number of the
\* house, otherwise both name the bank and the account number of the user,
\* and both always name the user's account name.
C28_ListingAndPayoutMaskAlike ==
    \A w \in WithdrawalIDs, ps \in PaymentSettingsStates :
        LET ba == BankAccount(withdrawals[w])
            listed == ListedDestination(ps, withdrawals[w], ba)
            sent == PayoutDestination(ps, withdrawals[w], ba)
        IN  /\ listed.AccountNumber = sent.account_number
            /\ listed.AccountName = sent.account_name
            /\ sent.account_name = ba.AccountName
            /\ IF MaskingApplies(ps, withdrawals[w])
               THEN /\ listed.BankName = ps.BankName
                    /\ sent.code = ps.BankCode
                    /\ sent.account_number = ps.AccountNumber
               ELSE /\ listed.BankName = ba.Bank.Name
                    /\ sent.code = ba.Bank.Code
                    /\ sent.account_number = ba.AccountNumber

\* the withdrawal has been approved, and there are settings under which its
\* payout goes to the account of the house and settings under which it goes
\* to the account of the user
C28_Witness ==
    /\ withdrawals[1].Status = "Success"
    /\ \E ps \in PaymentSettingsStates :
          /\ MaskingApplies(ps, withdrawals[1])
          /\ withdrawals[1].Amount = ps.WithdrawAmount
          /\ PayoutDestination(ps, withdrawals[1], BankAccount(withdrawals[1])).code = "BCA"
    /\ \E ps \in PaymentSettingsStates :
          /\ ps.ID # 0
          /\ PayoutDestination(ps, withdrawals[1], BankAccount(withdrawals[1])).code = "BRI"

\* C29: in every reachable state the final amount of every withdrawal is its
\* amount less its charge, also after an approval, a rejection or a payout
\* callback has written the whole row.
C29_FinalAmount ==
    \A w \in WithdrawalIDs :
        withdrawals[w].FinalAmount = withdrawals[w].Amount - withdrawals[w].Charge

\* the withdrawal has been rejected, set back to Pending by a payout
\* callback and rejected again: its row has been written three times and
\* its amount refunded twice
C29_Witness ==
    /\ payoutCalls > 0
    /\ withdrawals[1].Status = "Failed"
    /\ investments = <<>>
    /\ users[1].Balance = 2 * withdrawals[1].Amount
    /\ withdrawals[1].FinalAmount = 27000

\* C30: the level of every user is one of 0..5 in every reachable state, and
\* no step (a purchase, a confirmation, a settlement) lowers the level of a
\* user.
C30_LevelNeverDecreases ==
    /\ [](\A u \in UserIDs : users[u].Level \in 0..5)
    /\ [][\A u \in UserIDs : users'[u].Level >= users[u].Level]_vars

\* a user whose earlier locked investments came to 149,800,000 (level 4) has
\* confirmed a locked investment of 200,000 and is at level 5
C30_Witness ==
    /\ users[2].TotalInvestVIP = 150000000
    /\ users[2].Level = 5
    /\ \E i \in DOMAIN investments :
          /\ investments[i].UserID = 2
          /\ investments[i].Status = "Running"
          /\ investments[i].Amount = 200000

\* C31: the settlement that completes a due investment (its paid count
\* reaches the duration) sets it Completed and adds to the balance of its
\* owner, in all, the amount and the whole profit (daily profit times
\* duration) when its category is locked, the amount and one daily profit
\* when it is unlocked.
C31_CompletionCreditsBoth ==
    \A i \in Due(DB, now) :
        investments[i].TotalPaid + 1 = investments[i].Duration =>
            LET inv == investments[i]
                after == Settle(DB, i, inv, now)
                credited == after.users[inv.UserID].Balance - users[inv.UserID].Balance
            IN  /\ after.investments[i].Status = "Completed"
                /\ categories[inv.CategoryID].ProfitType = "locked" =>
                       credited = inv.Amount + inv.DailyProfit * inv.Duration
                /\ categories[inv.CategoryID].ProfitType = "unlocked" =>
                       credited = inv.Amount + inv.DailyProfit

\* a locked and an unlocked investment of one user have both been completed,
\* and the balance holds the principal and the whole profit of both
C31_Witness ==
    \E i, j \in DOMAIN investments :
        /\ investments[i].UserID = 1 /\ investments[j].UserID = 1
        /\ investments[i].Status = "Completed" /\ investments[j].Status = "Completed"
        /\ categories[investments[i].CategoryID].ProfitType = "locked"
        /\ categories[investments[j].CategoryID].ProfitType = "unlocked"
        /\ users[1].Balance = investments[i].Amount
                                  + investments[i].DailyProfit * investments[i].Duration
                              + investments[j].Amount
                                  + investments[j].DailyProfit * investments[j].Duration

\* C32: a step in which a scheduler run commits a settlement changes only
\* investments that are due when it commits (Running, next return not after
\* now, periods left): an investment that is not due at that moment is left
\* as it is, and no balance changes unless a due investment is settled.
C32_OnlyDueIsSettled ==
    [][\A k \in Workers :
          (cronReq[k].pc = "loop" /\ cronReq'[k] # cronReq[k]) =>
              /\ \A i \in DOMAIN investments :
                    ~IsDue(investments[i], now) => investments'[i] = investments[i]
              /\ (users' # users \/ transactions' # transactions) =>
                    \E j \in DOMAIN investments :
                        IsDue(investments[j], now) /\ investments'[j] # investments[j]]_vars

\* C33: the settlement of a due investment of a locked category for a period
\* that does not complete it adds 1 to its paid count and the daily profit to
\* its returned total, leaves it Running, changes no user row and writes no
\* row of the ledger.
C33_LockedAccruesWithoutPaying ==
    \A i \in Due(DB, now) :
        (/\ categories[investments[i].CategoryID].ProfitType = "locked"
         /\ investments[i].TotalPaid + 1 < investments[i].Duration) =>
            LET inv == investments[i]
                after == Settle(DB, i, inv, now)
            IN  /\ after.investments[i].TotalPaid = inv.TotalPaid + 1
                /\ after.investments[i].TotalReturned = inv.TotalReturned + inv.DailyProfit
                /\ after.investments[i].Status = "Running"
                /\ after.users = users
                /\ after.transactions = transactions
                /\ after.payments = payments

\* a locked investment has been settled for its first period of two: its
\* owner, who has no other income, still has a balance of 0 and the ledger
\* has no row of a return
C33_Witness ==
    \E i \in DOMAIN investments :
        /\ categories[investments[i].CategoryID].ProfitType = "locked"
        /\ investments[i].UserID = 2
        /\ investments[i].Status = "Running"
        /\ investments[i].TotalPaid = 1
        /\ investments[i].TotalReturned = investments[i].DailyProfit
        /\ investments[i].LastReturnAt = Some(now)
        /\ users[2].Balance = 0
        /\ \A r \in DOMAIN transactions : r.TransactionType # "return"

\* C34: a delivery for a Pending investment is answered 200 and makes the
\* investment Running when its status, trimmed and in upper case, is SUCCESS,
\* PAID or COMPLETED (the deliveries "success", " PAID " and "COMPLETED"),
\* and Cancelled for every other status, "pending" as well as "FAILED".
C34_AnyOtherStatusCancels ==
    \A i \in DOMAIN investments, status \in StatusInputs :
        investments[i].Status = "Pending" =>
            LET r == KytaWebhook(DB, InvOrderID(i), status, GatewayPaymentID, "none")
            IN  /\ r.resp.code = 200
                /\ r.db.investments[i].Status =
                       IF status \in {"success", " PAID ", "COMPLETED"}
                       THEN "Running" ELSE "Cancelled"
                /\ status \in {"pending", "FAILED"} =>
                       /\ r.db.payments[i].Status = "Failed"
                       /\ r.db.users = users

\* one investment has been cancelled by a delivery and another confirmed
C34_Witness ==
    \E i, j \in DOMAIN investments :
        /\ investments[i].Status = "Cancelled"
        /\ payments[i].Status = "Failed"
        /\ investments[j].Status = "Running"
        /\ payments[j].Status = "Success"

\* C35: in every reachable state an investment that is Running or Completed
\* has its Payment Success and its 'investment' Transaction Success, and an
\* investment that is Cancelled has its Payment Failed and its Transaction
\* Failed, whatever deliveries have come after.
C35_StatusesAgree ==
    \A i \in DOMAIN investments :
        /\ investments[i].Status \in {"Running", "Completed"} =>
              /\ payments[i].Status = "Success"
              /\ InvestmentTrxStatuses(transactions, i) = {"Success"}
        /\ investments[i].Status = "Cancelled" =>
              /\ payments[i].Status = "Failed"
              /\ InvestmentTrxStatuses(transactions, i) = {"Failed"}

\* C36: in every reachable state, for every product with a purchase limit
\* above 0, no user has more investments of the product that are Running,
\* Completed or Suspended than the limit.
C36_LimitIsNeverExceeded ==
    \A uid \in UserIDs, productID \in ProductIDs :
        Products[productID].PurchaseLimit > 0 =>
            Cardinality({i \in DOMAIN investments :
                            /\ investments[i].UserID = uid
                            /\ investments[i].ProductID = productID
                            /\ investments[i].Status \in {"Running", "Completed", "Suspended"}})
                <= Products[productID].PurchaseLimit

\* what a user's balance holds beyond the profits, principal and bonuses the
\* ledger records: the refunds of withdrawals
Refunded(u) ==
    users[u].Balance
        - Sum([r \in DOMAIN transactions |-> r.Amount * transactions[r]],
              {r \in DOMAIN transactions :
                  /\ r.UserID = u
                  /\ r.TransactionType \in {"return", "team"}
                  /\ r.Status = "Success"})

\* C37: over any sequence of approvals, rejections and payout callbacks the
\* amount of a withdrawal is refunded to the balance at most once, and a
\* withdrawal that has been rejected (Failed, refunded) never again becomes
\* Pending or Success.
C37_RefundedOnceAndForGood ==
    /\ [](\A u \in UserIDs :
            Refunded(u) <= Sum([w \in WithdrawalIDs |-> withdrawals[w].Amount],
                               {w \in WithdrawalIDs : withdrawals[w].UserID = u}))
    /\ [][\A w \in WithdrawalIDs :
            withdrawals[w].Status = "Failed" => withdrawals'[w].Status = "Failed"]_vars

\* C38: approvals of one Pending withdrawal that run at the same time in
\* automatic mode have sent, between them, at most one payout request for
\* the order id of the withdrawal.
C38_OnePayoutRequest ==
    \A w \in WithdrawalIDs :
        Cardinality({k \in Workers :
                        /\ approveReq[k].pc = "paid"
                        /\ approveReq[k].payout
                        /\ approveReq[k].id = w}) <= 1

\* C39: in every reachable state the total returned of every investment is
\* its daily profit times the number of periods paid, locked and unlocked
\* alike.
C39_ReturnedIsProfitTimesPaid ==
    \A i \in DOMAIN investments :
        investments[i].TotalReturned = investments[i].DailyProfit * investments[i].TotalPaid

\* a locked and an unlocked investment have both been settled
C39_Witness ==
    /\ C39_ReturnedIsProfitTimesPaid
    /\ \E i, j \in DOMAIN investments :
          /\ categories[investments[i].CategoryID].ProfitType = "locked"
          /\ categories[investments[j].CategoryID].ProfitType = "unlocked"
          /\ investments[i].TotalPaid > 0
          /\ investments[j].TotalPaid > 0

\* C40: with the scheduler triggered again and again and no settlement
\* failing for ever, every investment that is Running eventually becomes
\* Completed; it is Completed with exactly as many periods paid as its
\* duration, and no step pays an investment more than one period, however
\* long it has been due.
C40_RunningCompletes ==
    /\ \A i \in 1..MaxInvestments :
          (i \in DOMAIN investments /\ investments[i].Status = "Running")
              ~> (i \in DOMAIN investments /\ investments[i].Status = "Completed")
    /\ [](\A i \in DOMAIN investments :
             investments[i].Status = "Completed" =>
                 investments[i].TotalPaid = investments[i].Duration)
    /\ [][\A i \in DOMAIN investments :
             investments'[i].TotalPaid \in
                 {investments[i].TotalPaid, investments[i].TotalPaid + 1}]_vars

\* an investment of two periods has been completed, the last settlement
\* made when it was due
C40_Witness ==
    \E i \in DOMAIN investments :
        /\ investments[i].Status = "Completed"
        /\ investments[i].Duration = 2
        /\ investments[i].TotalPaid = 2
        /\ investments[i].LastReturnAt = Some(now)

====
